---- MODULE Spec2Model ----
(***************************************************************************)
(* A model of the raytrust path tracer: the nearest-hit query              *)
(* (Ray::intersects), the recursive integrator (Scene::render_ray) and the *)
(* render loop (render).                                                   *)
(*                                                                         *)
(* Numbers.  An f32 is modelled as an extended rational <<n, d>>:          *)
(*   d > 0      the rational n/d in lowest terms,                          *)
(*   <<1, 0>>   +infinity,   <<-1, 0>>  -infinity,   <<0, 0>>  NaN.        *)
(* Arithmetic is exact (no rounding) and follows IEEE-754 for the special  *)
(* values (x/0, 0*inf, inf-inf, comparisons with NaN).  Signed zeros are   *)
(* not distinguished.  Square roots are taken of perfect squares only; the *)
(* geometry of the model is chosen so that no other root is needed.        *)
(***************************************************************************)
EXTENDS Integers, Sequences, FiniteSets, TLC

(***************************************************************************)
(* Bounds of the model.                                                    *)
(***************************************************************************)
MaxObjects == 2
MaxDepth == 2
MaxCells == 4
MaxSamples == 2
JitterDen == 2

(***************************************************************************)
(* f32                                                                     *)
(***************************************************************************)
Abs(n) == IF n < 0 THEN -n ELSE n

Sign(n) == IF n < 0 THEN -1 ELSE IF n > 0 THEN 1 ELSE 0

RECURSIVE GCD(_, _)
GCD(a, b) == IF b = 0 THEN a ELSE GCD(b, a % b)

\* The canonical form of the quotient n/d of two integers.
Q(n, d) ==
    IF d = 0 THEN <<Sign(n), 0>>
    ELSE LET g == GCD(Abs(n), Abs(d))
         IN  <<(Sign(d) * n) \div g, Abs(d) \div g>>

F(n) == <<n, 1>>
NaN == <<0, 0>>
Infinity == <<1, 0>>

IsNaN(a) == a = NaN
IsInf(a) == a[2] = 0 /\ a[1] # 0
IsFinite(a) == a[2] > 0

FNeg(a) == <<-a[1], a[2]>>

FAdd(a, b) ==
    IF IsNaN(a) \/ IsNaN(b) THEN NaN
    ELSE IF IsInf(a) /\ IsInf(b) THEN (IF a = b THEN a ELSE NaN)
    ELSE IF IsInf(a) THEN a
    ELSE IF IsInf(b) THEN b
    ELSE Q(a[1] * b[2] + b[1] * a[2], a[2] * b[2])

FSub(a, b) == FAdd(a, FNeg(b))

FMul(a, b) ==
    IF IsNaN(a) \/ IsNaN(b) THEN NaN
    ELSE IF IsInf(a) \/ IsInf(b) THEN <<Sign(a[1]) * Sign(b[1]), 0>>
    ELSE Q(a[1] * b[1], a[2] * b[2])

\* f32::recip; 1/0 is +infinity.
FRecip(a) ==
    IF IsNaN(a) THEN NaN
    ELSE IF IsInf(a) THEN F(0)
    ELSE IF a[1] = 0 THEN Infinity
    ELSE Q(a[2], a[1])

\* The f32 division a / b.
FDiv(a, b) ==
    IF IsNaN(a) \/ IsNaN(b) THEN NaN
    ELSE IF IsInf(a) /\ IsInf(b) THEN NaN
    ELSE IF IsInf(a) THEN <<Sign(a[1]) * (IF b[1] < 0 THEN -1 ELSE 1), 0>>
    ELSE IF IsInf(b) THEN F(0)
    ELSE Q(a[1] * b[2], a[2] * b[1])

\* a < b on f32: false as soon as one side is NaN.
FLt(a, b) ==
    /\ ~IsNaN(a)
    /\ ~IsNaN(b)
    /\ a # b
    /\ IF IsInf(a) THEN a[1] < 0
       ELSE IF IsInf(b) THEN b[1] > 0
       ELSE a[1] * b[2] < b[1] * a[2]

FLe(a, b) == ~IsNaN(a) /\ ~IsNaN(b) /\ (a = b \/ FLt(a, b))

ISqrt(n) == CHOOSE r \in 0..n : r * r = n

\* f32::sqrt: NaN below zero.
FSqrt(a) ==
    IF IsNaN(a) THEN NaN
    ELSE IF IsInf(a) THEN (IF a[1] > 0 THEN a ELSE NaN)
    ELSE IF a[1] < 0 THEN NaN
    ELSE <<ISqrt(a[1]), ISqrt(a[2])>>

(***************************************************************************)
(* Vect3 and Point3: triples of f32.                                       *)
(***************************************************************************)
V(x, y, z) == <<F(x), F(y), F(z)>>

VAdd(a, b) == <<FAdd(a[1], b[1]), FAdd(a[2], b[2]), FAdd(a[3], b[3])>>

VSub(a, b) == <<FSub(a[1], b[1]), FSub(a[2], b[2]), FSub(a[3], b[3])>>

VScale(a, s) == <<FMul(a[1], s), FMul(a[2], s), FMul(a[3], s)>>

VDiv(a, s) == VScale(a, FRecip(s))

dot(a, b) == FAdd(FAdd(FMul(a[1], b[1]), FMul(a[2], b[2])), FMul(a[3], b[3]))

norm(a) == FSqrt(dot(a, a))

normalize(a) == VDiv(a, norm(a))

(***************************************************************************)
(* Ray                                                                     *)
(***************************************************************************)
RayNew(origin, direction) ==
    [origin |-> origin, direction |-> normalize(direction)]

RayAt(ray, distance) == VAdd(ray.origin, VScale(ray.direction, distance))

(***************************************************************************)
(* Surfaces.  A scene object owns a Box<dyn Surface>; a surface is either  *)
(* a Sphere or some other implementor of the trait, represented by the     *)
(* Option<Intersection> it returns.  An Option is a sequence of length 0   *)
(* (None) or 1 (Some).                                                     *)
(***************************************************************************)
IntersectionNew(point, normal) ==
    [point |-> point, normal |-> normalize(normal)]

Sphere(center, radius) ==
    [kind |-> "sphere", center |-> center, radius |-> radius, hit |-> <<>>]

OtherSurface(hit) ==
    [kind |-> "other", center |-> V(0, 0, 0), radius |-> F(0), hit |-> hit]

\* Sphere::intersected_by(&self, ray) -> Option<Intersection>, one operator
\* per let of the function: each value is computed once and handed on.
SphereHit(sphere, point) ==
    IntersectionNew(point, VSub(point, sphere.center))

SphereAccept(sphere, ray, distance) ==
    IF FLt(F(0), distance) THEN <<SphereHit(sphere, RayAt(ray, distance))>>
    ELSE <<>>

SphereNearRoot(sphere, ray, a, b, c) ==
    SphereAccept(sphere, ray,
                 FDiv(FSub(FNeg(b), FSqrt(FSub(FMul(b, b), FMul(a, c)))), a))

SphereSolve(sphere, ray, offset) ==
    SphereNearRoot(sphere, ray,
                   dot(ray.direction, ray.direction),
                   dot(offset, ray.direction),
                   FSub(dot(offset, offset), FMul(sphere.radius, sphere.radius)))

SphereIntersectedBy(sphere, ray) ==
    SphereSolve(sphere, ray, VSub(ray.origin, sphere.center))

\* object.surface.intersected_by(ray), dispatched on the implementor.
IntersectedBy(surface, ray) ==
    IF surface.kind = "sphere" THEN SphereIntersectedBy(surface, ray)
    ELSE surface.hit

(***************************************************************************)
(* Materials.  A scene object owns a Box<dyn Material>; scatter_at returns *)
(* a Vec of (Ray, color) pairs.  A material is represented by the list of  *)
(* pairs it returns: each scattered ray starts at the hit point and leaves *)
(* along the reflection of the incident direction ("reflect"), along the   *)
(* normal ("normal") or along the incident direction ("pass").             *)
(***************************************************************************)
Material(pairs) == [pairs |-> pairs]

Pair(turn, r, g, b) == [turn |-> turn, attenuation |-> <<r, g, b>>]

Reflection(incident, normal) ==
    VSub(incident, VScale(normal, FMul(F(2), dot(incident, normal))))

Turn(turn, incident, normal) ==
    IF turn = "reflect" THEN Reflection(incident, normal)
    ELSE IF turn = "normal" THEN normal
    ELSE incident

\* material.scatter_at(ray, &intersection) -> Vec<(Ray, Pixel)>
ScatterAt(material, ray, intersection) ==
    [i \in 1..Len(material.pairs) |->
        [ray |-> RayNew(intersection.point,
                        Turn(material.pairs[i].turn, ray.direction,
                             intersection.normal)),
         attenuation |-> material.pairs[i].attenuation]]

(***************************************************************************)
(* Scene                                                                   *)
(***************************************************************************)
Object(surface, material) == [surface |-> surface, material |-> material]

\* A distance range start..end (std::ops::Range<f32>, half-open).
Range(start, end) == [start |-> start, end |-> end]

RangeContains(filter, d) == FLe(filter.start, d) /\ FLt(d, filter.end)

\* The comparator handed to min_by; partial_cmp(..).unwrap() panics on None.
CompareNoNaNArms(a, b) ==
    IF IsNaN(a) \/ IsNaN(b) THEN "Panic"
    ELSE IF FLt(a, b) THEN "Less"
    ELSE IF FLt(b, a) THEN "Greater"
    ELSE "Equal"

Compare(a, b) ==
    IF IsNaN(a) /\ IsNaN(b) THEN "Equal"
    ELSE IF IsNaN(a) THEN "Greater"
    ELSE IF IsNaN(b) THEN "Less"
    ELSE IF FLt(a, b) THEN "Less"
    ELSE IF FLt(b, a) THEN "Greater"
    ELSE IF a = b THEN "Equal"
    ELSE "Panic"

\* filter_map over scene.objects, then the distance of each match from the
\* ray origin: the sequence of (intersection, material, distance).
Match(ray, material, found) ==
    IF found = <<>> THEN <<>>
    ELSE <<[intersection |-> found[1],
            material |-> material,
            distance |-> norm(VSub(found[1].point, ray.origin))]>>

RECURSIVE Matches(_, _, _)
Matches(ray, objects, i) ==
    IF i > Len(objects) THEN <<>>
    ELSE Match(ray, objects[i].material, IntersectedBy(objects[i].surface, ray))
             \o Matches(ray, objects, i + 1)

\* Iterator::min_by: a fold that keeps the earlier element unless the
\* comparator answers Greater.
MinByFirst(cands) ==
    [panicked |-> FALSE, hit |-> IF cands = <<>> THEN <<>> ELSE <<cands[1]>>]

MinByLast(cands) ==
    LET RECURSIVE Fold(_, _, _)
        Fold(best, i, panicked) ==
            IF i > Len(cands) \/ panicked
            THEN [panicked |-> panicked, hit |-> IF panicked THEN <<>> ELSE <<best>>]
            ELSE LET o == Compare(best.distance, cands[i].distance)
                 IN  Fold(IF o = "Less" THEN best ELSE cands[i], i + 1, o = "Panic")
    IN  IF cands = <<>> THEN [panicked |-> FALSE, hit |-> <<>>]
        ELSE Fold(cands[1], 2, FALSE)

MinBy(cands) ==
    LET RECURSIVE Fold(_, _, _)
        Fold(best, i, panicked) ==
            IF i > Len(cands) \/ panicked
            THEN [panicked |-> panicked, hit |-> IF panicked THEN <<>> ELSE <<best>>]
            ELSE LET o == Compare(best.distance, cands[i].distance)
                 IN  Fold(IF o = "Greater" THEN cands[i] ELSE best, i + 1, o = "Panic")
    IN  IF cands = <<>> THEN [panicked |-> FALSE, hit |-> <<>>]
        ELSE Fold(cands[1], 2, FALSE)

\* Ray::intersects(&self, scene, filter) -> Option<(Intersection, &dyn Material)>
Intersects(ray, scene, filter) ==
    LET inRange(m) == RangeContains(filter, m.distance)
    IN  MinBy(SelectSeq(Matches(ray, scene, 1), inRange))

(***************************************************************************)
(* Pixels and the integrator                                               *)
(***************************************************************************)
\* image::Pixel::default(): black.
PixelDefault == <<F(0), F(0), F(0)>>

PixelAdd(a, b) == <<FAdd(a[1], b[1]), FAdd(a[2], b[2]), FAdd(a[3], b[3])>>

PixelMulAdding(a, b) == VAdd(a, b)

PixelMul(a, b) == <<FMul(a[1], b[1]), FMul(a[2], b[2]), FMul(a[3], b[3])>>

PixelDiv(a, s) == <<FDiv(a[1], s), FDiv(a[2], s), FDiv(a[3], s)>>

\* The range render_ray hands to the nearest-hit query: 0.001..f32::INFINITY.
RenderFilter == Range(Q(1, 1000), Infinity)

\* The fold of render_ray over the attenuated colors of the scattered rays.
RECURSIVE SumFrom(_, _, _)
SumFrom(colors, i, acc) ==
    IF i > Len(colors) THEN acc
    ELSE SumFrom(colors, i + 1, PixelAdd(acc, colors[i]))

\* The result of render_ray from the accumulated sum of its n scattered rays.
ScatterSum(acc, n) == acc

ScatterMean(acc, n) ==
    IF n # 0 THEN PixelDiv(acc, F(n)) ELSE PixelDefault

\* The fall-back gradient of a ray that hits nothing.
BackgroundFlipped(ray) ==
    LET t == FMul(Q(1, 2), FSub(ray.direction[2], F(1)))
        u == FSub(F(1), t)
    IN  <<FAdd(FMul(u, F(1)), FMul(t, Q(1, 2))),
          FAdd(FMul(u, F(1)), FMul(t, Q(7, 10))),
          FAdd(FMul(u, F(1)), FMul(t, F(1)))>>

Background(ray) ==
    LET t == FMul(Q(1, 2), FAdd(ray.direction[2], F(1)))
        u == FSub(F(1), t)
    IN  <<FAdd(FMul(u, F(1)), FMul(t, Q(1, 2))),
          FAdd(FMul(u, F(1)), FMul(t, Q(7, 10))),
          FAdd(FMul(u, F(1)), FMul(t, F(1)))>>

\* Whether the direction of a ray is a unit vector.
UnitRay(ray) == dot(ray.direction, ray.direction) = F(1)

\* What render_ray returns once the recursion depth is used up.
ExhaustedAsMiss(ray) ==
    [color |-> Background(ray), found |-> FALSE, panicked |-> FALSE,
     pairs |-> <<>>, sub |-> <<>>, queries |-> 1, scatters |-> 0, levels |-> 0,
     units |-> UnitRay(ray)]

ExhaustedAfterQuery(ray) ==
    [color |-> PixelDefault, found |-> FALSE, panicked |-> FALSE,
     pairs |-> <<>>, sub |-> <<>>, queries |-> 1, scatters |-> 0, levels |-> 0,
     units |-> UnitRay(ray)]

Exhausted(ray) ==
    [color |-> PixelDefault, found |-> FALSE, panicked |-> FALSE,
     pairs |-> <<>>, sub |-> <<>>, queries |-> 0, scatters |-> 0, levels |-> 0,
     units |-> UnitRay(ray)]

\* What render_ray returns when the nearest-hit query finds nothing.
Missed(ray) ==
    [color |-> Background(ray), found |-> FALSE, panicked |-> FALSE,
     pairs |-> <<>>, sub |-> <<>>, queries |-> 1, scatters |-> 0, levels |-> 0,
     units |-> UnitRay(ray)]

RECURSIVE Total(_, _, _)
Total(calls, i, what) ==
    IF i > Len(calls) THEN 0
    ELSE (IF what = "queries" THEN calls[i].queries ELSE calls[i].scatters)
             + Total(calls, i + 1, what)

\* The deepest nesting of render_ray calls among the recursive calls, each of
\* which is one level itself.
RECURSIVE Deepest(_, _)
Deepest(calls, i) ==
    IF i > Len(calls) THEN 0
    ELSE LET rest == Deepest(calls, i + 1)
         IN  IF calls[i].levels + 1 > rest THEN calls[i].levels + 1 ELSE rest

\* The map and fold of render_ray over the scattered rays and the results of
\* the recursive calls on them.
Scattered(scatters, calls) ==
    [color |-> ScatterMean(
                   SumFrom([i \in 1..Len(scatters) |->
                               PixelMul(calls[i].color, scatters[i].attenuation)],
                           1, PixelDefault),
                   Len(scatters)),
     found |-> TRUE,
     panicked |-> \E i \in 1..Len(calls) : calls[i].panicked,
     pairs |-> scatters,
     sub |-> [i \in 1..Len(calls) |-> calls[i].color],
     queries |-> 1 + Total(calls, 1, "queries"),
     scatters |-> 1 + Total(calls, 1, "scatters"),
     levels |-> Deepest(calls, 1),
     units |-> \A i \in 1..Len(calls) : calls[i].units]

\* Scene::render_ray(&self, ray, depth) -> Pixel.  Besides the color, the
\* result records what the call did: whether the nearest-hit query found a
\* hit, the pairs the material returned, the colors of the recursive calls,
\* and the numbers of nearest-hit queries and scatter_at calls of the whole
\* call tree, how deep the recursive calls nest, and whether every ray of
\* the call tree has a unit direction.
RECURSIVE RenderRay(_, _, _)
RECURSIVE RenderEach(_, _, _, _)
RenderEach(sc, scatters, depth, i) ==
    IF i > Len(scatters) THEN <<>>
    ELSE <<RenderRay(sc, scatters[i].ray, depth - 1)>>
             \o RenderEach(sc, scatters, depth, i + 1)

RenderScatters(sc, ray, depth, scatters) ==
    [Scattered(scatters, RenderEach(sc, scatters, depth, 1))
        EXCEPT !.units = @ /\ UnitRay(ray)]

RenderQueried(sc, ray, depth, q) ==
    IF q.panicked THEN [Missed(ray) EXCEPT !.panicked = TRUE]
    ELSE IF q.hit # <<>>
    THEN RenderScatters(sc, ray, depth,
                        ScatterAt(q.hit[1].material, ray, q.hit[1].intersection))
    ELSE Missed(ray)

RenderRay(sc, ray, depth) ==
    IF depth = 0 THEN Exhausted(ray)
    ELSE RenderQueried(sc, ray, depth, Intersects(ray, sc, RenderFilter))

(***************************************************************************)
(* The objects, rays and ranges the model draws its inputs from.           *)
(***************************************************************************)
Half == Q(1, 2)

Mirror == Material(<<Pair("reflect", Half, Half, Half)>>)
Absorber == Material(<<>>)
Splitter == Material(<<Pair("pass", F(1), Half, F(0)),
                       Pair("normal", Half, F(1), F(1))>>)
Glass == Material(<<Pair("pass", F(1), F(1), F(1))>>)
Glow == Material(<<Pair("reflect", Q(3, 2), Half, F(1))>>)

\* An intersection whose point is not a number.
NaNHit == <<[point |-> <<NaN, NaN, NaN>>, normal |-> <<NaN, NaN, NaN>>]>>

Catalogue ==
    << Object(Sphere(V(0, 0, 2), F(1)), Splitter),
       Object(Sphere(V(0, 0, 4), F(1)), Mirror),
       Object(Sphere(V(0, 0, 2), F(-1)), Absorber),
       Object(Sphere(V(0, 3, 0), F(1)), Glass),
       Object(OtherSurface(NaNHit), Mirror),
       Object(Sphere(V(0, 0, -4), F(1)), Glow) >>

\* The scenes: up to MaxObjects distinct objects of the catalogue, in any order.
RECURSIVE ScenesOfLen(_)
ScenesOfLen(n) ==
    IF n = 0 THEN {<<>>}
    ELSE {Append(sc, o) : sc \in ScenesOfLen(n - 1), o \in 1..Len(Catalogue)}

Distinct(ix) == \A i, j \in 1..Len(ix) : ix[i] = ix[j] => i = j

SceneIndices ==
    {ix \in UNION {ScenesOfLen(n) : n \in 0..MaxObjects} : Distinct(ix)}

SceneOf(ix) == [i \in 1..Len(ix) |-> Catalogue[ix[i]]]

\* Axis-parallel rays.
RayInputs ==
    {RayNew(o, d) : o \in {V(0, 0, 0), V(1, 0, 0)},
                    d \in {V(0, 0, 1), V(0, 0, -1), V(0, 1, 0), V(0, -1, 0)}}

Filters ==
    {Range(F(0), Infinity), Range(F(2), Infinity), RenderFilter,
     Range(F(0), Half), Range(Q(3, 2), F(2))}

(***************************************************************************)
(* Image                                                                   *)
(***************************************************************************)
\* Image::new(width, height): width * height default pixels, row-major.
ImageNew(w, h) == [k \in 1..(w * h) |-> PixelDefault]

\* The number of rows chunks_exact(_mut)(width) yields; it panics on width 0.
RowCount(pixels, w) == Len(pixels) \div w

CellOfRow(row, col, w) == row * w + 1

\* The position in image.pixels of item col of the row numbered row.
Cell(row, col, w) == row * w + col + 1

(***************************************************************************)
(* Camera.  Camera::ray(u, v) samples a random lens offset and normalises  *)
(* the direction corner + w*u + h*v - origin.  The model admits any ray of *)
(* CameraRays for finite (u, v).  When u or v is not finite every          *)
(* component of w*u (or h*v) is infinite or NaN (0*inf is NaN), the norm   *)
(* is infinite or NaN, and every component of the normalised direction is  *)
(* NaN (inf * 0 and NaN * x are NaN).                                      *)
(***************************************************************************)
CameraRays == {RayNew(V(0, 0, 0), V(0, 0, 1)), RayNew(V(0, 0, 0), V(0, -1, 0))}

DegenerateRays == {[origin |-> V(0, 0, 0), direction |-> <<NaN, NaN, NaN>>]}

CameraRay(u, v) ==
    IF IsFinite(u) /\ IsFinite(v) THEN CameraRays ELSE DegenerateRays

(***************************************************************************)
(* Further f32 and Vect3 operations.                                       *)
(***************************************************************************)
\* f32::min: the other operand when one of the two is NaN.
FMin(a, b) ==
    IF IsNaN(a) THEN b
    ELSE IF IsNaN(b) THEN a
    ELSE IF FLt(b, a) THEN b ELSE a

FAbs(a) == <<Abs(a[1]), a[2]>>

\* f32::powi(5)
FPowi5(a) == FMul(FMul(FMul(a, a), FMul(a, a)), a)

\* -a is Vect3::zero() - a
VNeg(a) == VSub(V(0, 0, 0), a)

cross(a, b) ==
    <<FSub(FMul(a[2], b[3]), FMul(a[3], b[2])),
      FSub(FMul(a[3], b[1]), FMul(a[1], b[3])),
      FSub(FMul(a[1], b[2]), FMul(a[2], b[1]))>>

\* a.project(b): (a.dot(b) / a.dot(a)) * a
project(a, b) == VScale(a, FDiv(dot(a, b), dot(a, a)))

(***************************************************************************)
(* The Surface trait: intersected_by(&self, ray, filter) returns every     *)
(* intersection in the range, as a Vec.                                    *)
(***************************************************************************)
\* The normal handed to Intersection::new.
SphereNormalUnscaled(sphere, point) == VSub(point, sphere.center)

SphereNormal(sphere, point) ==
    VDiv(VSub(point, sphere.center), sphere.radius)

SphereIntersectionAt(sphere, point) ==
    IntersectionNew(point, SphereNormal(sphere, point))

\* let distances = [(-b - sqrt(b*b - a*c)) / a, (-b + sqrt(b*b - a*c)) / a]
SphereDistancesOnce(a, b, c) ==
    IF FSub(FMul(b, b), FMul(a, c)) = F(0)
    THEN <<FDiv(FNeg(b), a)>>
    ELSE <<FDiv(FSub(FNeg(b), FSqrt(FSub(FMul(b, b), FMul(a, c)))), a),
           FDiv(FAdd(FNeg(b), FSqrt(FSub(FMul(b, b), FMul(a, c)))), a)>>

SphereDistancesFarFirst(a, b, c) ==
    <<FDiv(FAdd(FNeg(b), FSqrt(FSub(FMul(b, b), FMul(a, c)))), a),
      FDiv(FSub(FNeg(b), FSqrt(FSub(FMul(b, b), FMul(a, c)))), a)>>

SphereDistances(a, b, c) ==
    <<FDiv(FSub(FNeg(b), FSqrt(FSub(FMul(b, b), FMul(a, c)))), a),
      FDiv(FAdd(FNeg(b), FSqrt(FSub(FMul(b, b), FMul(a, c)))), a)>>

SphereCoefficients(sphere, ray, offset) ==
    SphereDistances(dot(ray.direction, ray.direction),
                    dot(offset, ray.direction),
                    FSub(dot(offset, offset), FMul(sphere.radius, sphere.radius)))

\* filter(contains), map(point, normal, Intersection::new), collect
SphereCollect(sphere, ray, filter, distances) ==
    LET inRange(d) == RangeContains(filter, d)
        kept == SelectSeq(distances, inRange)
    IN  [i \in 1..Len(kept) |-> SphereIntersectionAt(sphere, RayAt(ray, kept[i]))]

\* <Sphere as Surface>::intersected_by(&self, ray, filter) -> Vec<Intersection>
SurfaceIntersectedBy(sphere, ray, filter) ==
    SphereCollect(sphere, ray, filter,
                  SphereCoefficients(sphere, ray, VSub(ray.origin, sphere.center)))

(***************************************************************************)
(* The implementors of Material.  A random draw is an argument of the      *)
(* operator.  Lambertian and Hemispherical return one (Ray, Pixel) tuple,  *)
(* modelled as a sequence of length 1; Metal and Dielectric return a Vec.  *)
(***************************************************************************)
Scatter(r, attenuation) == [ray |-> r, attenuation |-> attenuation]

\* rand_point_on_sphere(origin, 1.0) = origin + vec * (1.0 / norm): the draw
\* is the unit vector vec / norm (a draw of norm 0 is redrawn).
RandPointOnSphere(origin, unit) == VAdd(origin, unit)

LambertianScatterAt(hit, attenuation, draw) ==
    <<Scatter(RayNew(hit.point,
                     VSub(RandPointOnSphere(VAdd(hit.point, hit.normal), draw),
                          hit.point)),
              attenuation)>>

HemisphericalFold(hit, attenuation, direction) ==
    IF FLt(F(0), dot(direction, hit.normal))
    THEN <<Scatter(RayNew(hit.point, direction), attenuation)>>
    ELSE <<Scatter(RayNew(hit.point, VNeg(direction)), attenuation)>>

HemisphericalScatterAt(hit, attenuation, draw) ==
    HemisphericalFold(hit, attenuation,
                      VSub(RandPointOnSphere(hit.point, draw), hit.point))

\* rand_point_on_disk(normal, radius) with the UnitDisc draw vec.
DiskBasisX(normal) ==
    normalize(VSub(V(1, 0, 0), project(normal, V(1, 0, 0))))

DiskPoint(normal, radius, vec, bx) ==
    VAdd(VScale(VScale(bx, vec[1]), radius),
         VScale(VScale(cross(normal, bx), vec[2]), radius))

RandPointOnDisk(normal, radius, vec) ==
    DiskPoint(normal, radius, vec, DiskBasisX(normal))

MetalAcceptGrazing(hit, attenuation, direction) ==
    IF FLe(F(0), dot(direction, hit.normal))
    THEN <<Scatter(RayNew(hit.point, direction), attenuation)>>
    ELSE <<>>

MetalAccept(hit, attenuation, direction) ==
    IF FLt(F(0), dot(direction, hit.normal))
    THEN <<Scatter(RayNew(hit.point, direction), attenuation)>>
    ELSE <<>>

MetalPerturb(hit, attenuation, pertubation, vec, reflection) ==
    MetalAccept(hit, attenuation,
                VAdd(reflection, RandPointOnDisk(reflection, pertubation, vec)))

MetalScatterAt(attenuation, pertubation, ray, hit, vec) ==
    MetalPerturb(hit, attenuation, pertubation, vec,
                 Reflection(ray.direction, hit.normal))

\* refract(incident, normal, ratio) with the Uniform(0, 1) draw p.
SchlickReflectance(ratio, cos_theta) ==
    LET r0 == FDiv(FSub(F(1), ratio), FAdd(F(1), ratio))
    IN  FAdd(FMul(r0, r0),
             FMul(FSub(F(1), FMul(r0, r0)), FPowi5(FSub(F(1), cos_theta))))

Refraction(normal, orthogonal) ==
    VAdd(orthogonal,
         VScale(normal,
                FNeg(FSqrt(FAbs(FSub(F(1), dot(orthogonal, orthogonal)))))))

ReflectsAlways(ratio, cos_theta, p) == TRUE

ReflectsNever(ratio, cos_theta, p) == FALSE

Reflects(ratio, cos_theta, p) ==
    \/ FLt(F(1), FMul(ratio, FSqrt(FSub(F(1), FMul(cos_theta, cos_theta)))))
    \/ FLt(p, SchlickReflectance(ratio, cos_theta))

RefractEntering(incident, normal, ratio, p, cos_theta) ==
    IF Reflects(ratio, cos_theta, p)
    THEN Reflection(incident, normal)
    ELSE Refraction(normal, VScale(VAdd(incident, VScale(normal, cos_theta)), ratio))

\* The arguments of the call refract makes of itself.
NestedKeepingNormal(frame) ==
    [incident |-> frame.incident, normal |-> frame.normal,
     ratio |-> FRecip(frame.ratio)]

Nested(frame) ==
    [incident |-> frame.incident, normal |-> VNeg(frame.normal),
     ratio |-> FRecip(frame.ratio)]

\* cos_theta of a call, and the test that sends it into the recursive branch.
FrameCosTheta(frame) == FMin(dot(frame.incident, VNeg(frame.normal)), F(1))

FrameRecurses(frame) == FLt(FrameCosTheta(frame), F(0))

RECURSIVE refract(_, _, _, _)
RefractWith(incident, normal, ratio, p, cos_theta) ==
    IF FLt(cos_theta, F(0))
    THEN refract(incident, VNeg(normal), FRecip(ratio), p)
    ELSE RefractEntering(incident, normal, ratio, p, cos_theta)

refract(incident, normal, ratio, p) ==
    RefractWith(incident, normal, ratio, p,
                FMin(dot(incident, VNeg(normal)), F(1)))

DielectricScatterAt(attenuation, refraction, ray, hit, p) ==
    <<Scatter(RayNew(hit.point,
                     refract(ray.direction, hit.normal, FRecip(refraction), p)),
              attenuation)>>

(***************************************************************************)
(* The Image struct and its accessors.  A value that panics is a record    *)
(* with panicked = TRUE.                                                   *)
(***************************************************************************)
Image(w, h) == [width |-> w, height |-> h, pixels |-> ImageNew(w, h)]

ImageWidth(im) == im.width

ImageHeight(im) == im.height

\* slice::chunks_exact(chunk_size): panics when chunk_size is 0; the rows are
\* the consecutive full chunks.
ChunksExact(pixels, size) ==
    IF size = 0 THEN [panicked |-> TRUE, rows |-> <<>>]
    ELSE [panicked |-> FALSE,
          rows |-> [r \in 1..(Len(pixels) \div size) |->
                       SubSeq(pixels, (r - 1) * size + 1, r * size)]]

\* Image::iter / Image::iter_mut
ImageIter(im) == ChunksExact(im.pixels, im.width)

\* iter().nth(index).expect("Index out of range")
NthRow(it, index) ==
    IF it.panicked \/ index >= Len(it.rows)
    THEN [panicked |-> TRUE, row |-> <<>>]
    ELSE [panicked |-> FALSE, row |-> it.rows[index + 1]]

\* <Image as Index<usize>>::index
ImageIndex(im, index) == NthRow(ImageIter(im), index)

\* The position in image.pixels of element j of the chunk number i.
ChunkCellColumnMajor(im, i, j) == j * im.height + i + 1

ChunkCell(im, i, j) == i * im.width + j + 1

\* image[i][j] = pixel: index_mut(i), then the slice assignment, which panics
\* when j is not below the length of the row.
ImageStore(im, i, j, pixel) ==
    IF ImageIndex(im, i).panicked \/ j >= Len(ImageIndex(im, i).row)
    THEN [panicked |-> TRUE, image |-> im]
    ELSE [panicked |-> FALSE,
          image |-> [im EXCEPT !.pixels[ChunkCell(im, i, j)] = pixel]]

\* image[i][j] as a value
ImageLoad(im, i, j) ==
    IF ImageIndex(im, i).panicked \/ j >= Len(ImageIndex(im, i).row)
    THEN [panicked |-> TRUE, pixel |-> PixelDefault]
    ELSE [panicked |-> FALSE, pixel |-> ImageIndex(im, i).row[j + 1]]

(***************************************************************************)
(* write_pgm.  A line of the stream is its text, or the integers it holds  *)
(* separated by spaces.                                                    *)
(***************************************************************************)
Line(text, numbers) == [text |-> text, numbers |-> numbers]

\* f32::powf(gamma.recip()), for the exponents 1, 2 and 1/2.
Powf(x, exponent) ==
    IF exponent = F(1) THEN x
    ELSE IF exponent = F(2) THEN FMul(x, x)
    ELSE FSqrt(x)

\* f32::round: to the nearest integer, halves away from zero.
FRound(a) ==
    IF ~IsFinite(a) THEN a
    ELSE F(Sign(a[1]) * ((2 * Abs(a[1]) + a[2]) \div (2 * a[2])))

\* `as u8`: saturating, NaN to 0.
CastU8Wrapping(a) ==
    IF IsNaN(a) THEN 0
    ELSE IF IsInf(a) THEN (IF a[1] > 0 THEN 255 ELSE 0)
    ELSE a[1] % 256

CastU8(a) ==
    IF IsNaN(a) THEN 0
    ELSE IF IsInf(a) THEN (IF a[1] > 0 THEN 255 ELSE 0)
    ELSE IF a[1] < 0 THEN 0
    ELSE IF a[1] > 255 * a[2] THEN 255
    ELSE a[1] \div a[2]

\* (channel.powf(gamma.recip()) * 255.0).round() as u8
Quantize(channel, gamma) ==
    CastU8(FRound(FMul(Powf(channel, FRecip(gamma)), F(255))))

PixelLine(pixel, gamma) ==
    Line("", <<Quantize(pixel[1], gamma), Quantize(pixel[2], gamma),
               Quantize(pixel[3], gamma)>>)

\* writeln!(stream, ..)?: the line reaches the stream and write_pgm goes on,
\* or the write fails, some leading part of the line may have reached the
\* stream, and write_pgm returns the error.
WrittenIgnoringErrors(p, line, ok, torn, next) ==
    IF ok THEN [p EXCEPT !.out = Append(@, line), !.pc = next]
    ELSE [p EXCEPT !.err = TRUE, !.torn = torn, !.before = Len(p.out),
                   !.pc = next]

Written(p, line, ok, torn, next) ==
    IF ok THEN [p EXCEPT !.out = Append(@, line), !.pc = next]
    ELSE [p EXCEPT !.err = TRUE, !.torn = torn, !.before = Len(p.out),
                   !.pc = "failed"]

(***************************************************************************)
(* Camera.  The sines and cosines the code takes of multiples of the       *)
(* aperture angle are handed in as points of the unit circle, and the      *)
(* factor sqrt(angle / sin(angle)) as a number.                            *)
(***************************************************************************)
\* rand_point_in_triangle(angle) with up = (cos(angle/2), sin(angle/2), 0) and
\* the two Uniform::new_inclusive(0.0, 1.0) samples u and v.
FoldBack(up, point) ==
    IF FLt(up[1], point[1])
    THEN VSub(<<up[1], F(0), F(0)>>, point)
    ELSE point

RandPointInTriangle(up, u, v) ==
    FoldBack(up, VAdd(VScale(up, u), VScale(<<up[1], FNeg(up[2]), up[3]>>, v)))

\* Camera::new
CameraBasis(origin, corner, x, y, z, horiz, vert, radius) ==
    [origin |-> origin, corner |-> corner, camera_cs |-> <<x, y, z>>,
     image_plane |-> <<horiz, vert>>, radius |-> radius]

CameraPlane(origin, x, y, z, focus_dist, image_scale, radius, viewport) ==
    CameraBasis(origin,
                VSub(VSub(VSub(origin,
                               VDiv(VScale(x, FMul(image_scale, viewport[1])), F(2))),
                          VDiv(VScale(y, FMul(image_scale, viewport[2])), F(2))),
                     VScale(z, focus_dist)),
                x, y, z,
                VScale(x, FMul(image_scale, viewport[1])),
                VScale(y, FMul(image_scale, viewport[2])),
                radius)

CameraAxes(origin, x, z, focus_dist, focal_length, aperture, viewport) ==
    CameraPlane(origin, x, cross(z, x), z, focus_dist,
                FAbs(FDiv(focus_dist, focal_length)),
                FDiv(FDiv(focal_length, aperture), F(2)), viewport)

CameraNew(origin, target, vertical, focal_length, aperture, viewport) ==
    CameraAxes(origin,
               normalize(cross(normalize(vertical), normalize(VSub(origin, target)))),
               normalize(VSub(origin, target)),
               norm(VSub(origin, target)), focal_length, aperture, viewport)

\* Camera::sample_aperture: the point of the triangle, rotated by the angle
\* whose cosine and sine are rot[1] and rot[2], in the plane of the lens.
SampleAperture(cam, point, rot, scale) ==
    VScale(VAdd(VScale(cam.camera_cs[1],
                       FSub(FMul(point[1], rot[1]), FMul(point[2], rot[2]))),
                VScale(cam.camera_cs[2],
                       FAdd(FMul(point[1], rot[2]), FMul(point[2], rot[1])))),
           FMul(cam.radius, scale))

\* Camera::ray(u, v): the origin and the direction it hands to Ray::new, which
\* normalises the direction (RayNew).
LensRayKeepingDirection(cam, u, v, offset) ==
    [origin |-> VAdd(cam.origin, offset),
     direction |-> VSub(VAdd(VAdd(cam.corner, VScale(cam.image_plane[1], u)),
                             VScale(cam.image_plane[2], v)),
                        cam.origin)]

LensRay(cam, u, v, offset) ==
    [origin |-> VAdd(cam.origin, offset),
     direction |-> VSub(VSub(VAdd(VAdd(cam.corner, VScale(cam.image_plane[1], u)),
                                  VScale(cam.image_plane[2], v)),
                             cam.origin),
                        offset)]

\* The camera of the renders and of the calls that need none: at the origin,
\* looking down the negative z axis.
TestCamera ==
    CameraNew(V(0, 0, 0), V(0, 0, -1), V(0, 1, 0), F(1), F(2), <<F(2), F(2)>>)

(***************************************************************************)
(* State                                                                   *)
(***************************************************************************)
VARIABLES
    objs,       \* the scene: the catalogue numbers of scene.objects, in order
    depth,      \* the recursion depth handed to render_ray
    \* a call of Ray::intersects or Scene::render_ray
    op,         \* "input", "intersects" or "render_ray": what res/out show
    ray,        \* the ray of the call
    filter,     \* the distance range of the call
    res,        \* the result of Ray::intersects
    out,        \* the result of Scene::render_ray
    \* a run of render
    width, height, samples,
    pc,         \* "new", "pixel", "callback", "done", "panicked" ("idle": no run)
    image,      \* image.pixels
    y,          \* the row counter of enumerate() over the reversed rows
    x,          \* the column counter
    s,          \* the samples taken so far for the pixel
    acc,        \* the sum of their colors
    callbacks,  \* the arguments the callback was invoked with, in order
    writes,     \* per cell, how often it was assigned
    call,       \* the last camera.ray / render_ray call
    rayCalls,   \* the number of camera.ray calls so far
    got,        \* the colors render_ray returned for the pixel
    stored,     \* the last pixel assignment: its cell and the colors behind it
    \* a call of a surface's intersected_by, a material's scatter_at or refract
    unit,       \* "input" before the call, then the function called ("idle": none)
    args,       \* the arguments and the random draws of the call
    ret,        \* what the call returned
    frames,     \* the arguments of the refract calls made, outermost first
    camera,     \* the camera of the render or of the Camera::ray call
    \* an Image under its accessors, and a run of write_pgm on it
    img,        \* the image: width, height, pixels
    last,       \* the last operation on the image and what it returned
    pgm         \* write_pgm: position, stream, callbacks, outcome

rayVars == <<op, ray, filter, res, out>>

renderVars == <<width, height, samples, pc, image, y, x, s, acc, callbacks,
                writes, call, rayCalls, got, stored>>

callVars == <<unit, args, ret, frames>>

imageVars == <<img, last, pgm>>

vars == <<objs, depth, rayVars, renderVars, callVars, camera, imageVars>>

NoResult == [panicked |-> FALSE, hit |-> <<>>]

NoOutcome == RenderRay(<<>>, RayNew(V(0, 0, 0), V(0, 0, 1)), 0)

NoCall == [made |-> FALSE, u |-> NaN, v |-> NaN, ju |-> NaN, jv |-> NaN,
           ray |-> RayNew(V(0, 0, 0), V(0, 0, 1)), color |-> PixelDefault,
           row |-> 0, col |-> 0]

NoStore == [made |-> FALSE, cell |-> 0, colors |-> <<>>]

scene == SceneOf(objs)

NoArgs ==
    [fn |-> "none",
     sphere |-> Sphere(V(0, 0, 2), F(1)),
     ray |-> RayNew(V(0, 0, 0), V(0, 0, 1)),
     filter |-> Range(F(0), Infinity),
     hit |-> IntersectionNew(V(0, 0, 0), V(0, 0, 1)),
     draw |-> V(0, 0, 1),
     vec |-> <<F(0), F(0)>>,
     fuzz |-> F(0),
     eta |-> F(1),
     p |-> F(0),
     color |-> <<F(1), F(1), F(1)>>,
     lens |-> [up |-> V(1, 0, 0), u |-> F(0), v |-> F(0),
               rot |-> <<F(1), F(0)>>, scale |-> F(1)],
     at |-> <<F(0), F(0)>>]

CallIdle == unit = "idle" /\ args = NoArgs /\ ret = <<>> /\ frames = <<>>

NoOperation == [op |-> "none", shape |-> <<0, 0>>, i |-> 0, j |-> 0,
                panicked |-> FALSE, value |-> <<>>, before |-> <<>>]

NoPgm == [pc |-> "idle", gamma |-> F(1), y |-> 0, x |-> 0, out |-> <<>>,
          callbacks |-> <<>>, err |-> FALSE, torn |-> <<>>, before |-> 0]

ImageIdle == img = Image(0, 0) /\ last = NoOperation /\ pgm = NoPgm

CameraIdle == camera = TestCamera

(***************************************************************************)
(* Calls of Ray::intersects and Scene::render_ray on drawn inputs.         *)
(***************************************************************************)
RenderIdle ==
    /\ width = 0 /\ height = 0 /\ samples = 0
    /\ pc = "idle"
    /\ image = <<>> /\ y = 0 /\ x = 0 /\ s = 0 /\ acc = PixelDefault
    /\ callbacks = <<>> /\ writes = <<>> /\ call = NoCall /\ rayCalls = 0
    /\ got = <<>> /\ stored = NoStore

InitRay ==
    /\ objs \in SceneIndices
    /\ depth \in 0..MaxDepth
    /\ ray \in RayInputs
    /\ filter \in Filters
    /\ op = "input"
    /\ res = NoResult
    /\ out = NoOutcome
    /\ RenderIdle
    /\ CallIdle
    /\ ImageIdle
    /\ CameraIdle

CallIntersects ==
    /\ op = "input"
    /\ op' = "intersects"
    /\ res' = Intersects(ray, scene, filter)
    /\ UNCHANGED <<camera, imageVars, callVars, objs, depth, ray, filter, out, renderVars>>

CallRenderRay ==
    /\ op = "input"
    /\ op' = "render_ray"
    /\ out' = RenderRay(scene, ray, depth)
    /\ UNCHANGED <<camera, imageVars, callVars, objs, depth, ray, filter, res, renderVars>>

NextRay == CallIntersects \/ CallRenderRay

SpecRay == InitRay /\ [][NextRay]_vars

(***************************************************************************)
(* render(scene, camera, width, height, samples, depth, callback)          *)
(***************************************************************************)
RayIdle ==
    /\ op = "idle" /\ ray = RayNew(V(0, 0, 0), V(0, 0, 1))
    /\ filter = RenderFilter /\ res = NoResult /\ out = NoOutcome

\* The scene handed to render, and the recursion depths: none and the largest.
RenderScenes == {<<1>>}

RenderDepths == {0, MaxDepth}

\* rng.gen_range(0.0..1.0)
Jitters == {Q(k, JitterDen) : k \in 0..(JitterDen - 1)}

\* The image row behind item y of image.iter_mut().rev().enumerate().
RowOfForward(n, rows) == n

RowOf(n, rows) == rows - 1 - n

\* ((n as f32) + jitter) / ((size as f32) - 1.0)
SampleCoordinate(n, jitter, size) ==
    FDiv(FAdd(F(n), jitter), FSub(F(size), F(1)))

\* The argument of the callback after item y of the row loop.
CallbackArgumentFromZero(n) == n

CallbackArgument(n) == n + 1

\* The value assigned to the pixel: acc / (samples as f32).
PixelSum(sum, n) == sum

PixelMean(sum, n) == PixelDiv(sum, F(n))

rows == RowCount(image, width)

Init ==
    /\ width \in 0..MaxCells
    /\ height \in 0..MaxCells
    /\ width * height <= MaxCells
    /\ samples \in 0..MaxSamples
    /\ depth \in RenderDepths
    /\ objs \in RenderScenes
    /\ pc = "new"
    /\ image = <<>> /\ y = 0 /\ x = 0 /\ s = 0 /\ acc = PixelDefault
    /\ callbacks = <<>> /\ writes = <<>> /\ call = NoCall /\ rayCalls = 0
    /\ got = <<>> /\ stored = NoStore
    /\ RayIdle
    /\ CallIdle
    /\ ImageIdle
    /\ CameraIdle

\* Image::new, the rng, and the start of the row loop: image.iter_mut()
\* panics on width 0, and yields no row when height is 0.
RenderNew ==
    /\ pc = "new"
    /\ image' = ImageNew(width, height)
    /\ writes' = [k \in 1..(width * height) |-> 0]
    /\ pc' = IF width = 0 THEN "panicked"
             ELSE IF RowCount(ImageNew(width, height), width) = 0 THEN "done"
             ELSE "pixel"
    /\ UNCHANGED <<camera, imageVars, callVars, objs, depth, rayVars, width, height, samples, y, x, s, acc,
                   callbacks, call, rayCalls, got, stored>>

\* One sample of the pixel: two jitter draws, camera.ray(u, v) and
\* scene.render_ray(ray, depth), folded into the sum.
RenderSample ==
    /\ pc = "pixel"
    /\ s < samples
    /\ \E r \in CameraRays \cup DegenerateRays :
          \E color \in {RenderRay(scene, r, depth).color} :
              \E ju \in Jitters, jv \in Jitters :
                  LET u == SampleCoordinate(x, ju, width)
                      v == SampleCoordinate(y, jv, height)
                  IN  /\ r \in CameraRay(u, v)
                      /\ acc' = PixelAdd(acc, color)
                      /\ got' = Append(got, color)
                      /\ call' = [made |-> TRUE, u |-> u, v |-> v,
                                  ju |-> ju, jv |-> jv, ray |-> r,
                                  color |-> color,
                                  row |-> RowOf(y, rows), col |-> x]
    /\ s' = s + 1
    /\ rayCalls' = rayCalls + 1
    /\ UNCHANGED <<camera, imageVars, callVars, objs, depth, rayVars, width, height, samples, pc, image,
                   y, x, callbacks, writes, stored>>

\* *pixel = acc / (samples as f32), then the next column or the end of the row.
RenderStore ==
    /\ pc = "pixel"
    /\ s = samples
    /\ LET cell == Cell(RowOf(y, rows), x, width)
       IN  /\ image' = [image EXCEPT ![cell] = PixelMean(acc, samples)]
           /\ writes' = [writes EXCEPT ![cell] = @ + 1]
           /\ stored' = [made |-> TRUE, cell |-> cell, colors |-> got]
    /\ s' = 0
    /\ acc' = PixelDefault
    /\ got' = <<>>
    /\ x' = IF x + 1 < width THEN x + 1 ELSE x
    /\ pc' = IF x + 1 < width THEN "pixel" ELSE "callback"
    /\ UNCHANGED <<camera, imageVars, callVars, objs, depth, rayVars, width, height, samples, y, callbacks,
                   call, rayCalls>>

\* callback(y + 1), then the next row or the return of the image.
RenderCallback ==
    /\ pc = "callback"
    /\ callbacks' = Append(callbacks, CallbackArgument(y))
    /\ y' = IF y + 1 < rows THEN y + 1 ELSE y
    /\ x' = 0
    /\ pc' = IF y + 1 < rows THEN "pixel" ELSE "done"
    /\ UNCHANGED <<camera, imageVars, callVars, objs, depth, rayVars, width, height, samples, image, s, acc,
                   writes, call, rayCalls, got, stored>>

Next == RenderNew \/ RenderSample \/ RenderStore \/ RenderCallback

Spec == Init /\ [][Next]_vars

(***************************************************************************)
(* Calls of <Sphere as Surface>::intersected_by, of the scatter_at of the  *)
(* four materials and of refract, on drawn arguments and random draws.     *)
(* Every vector of the inputs has rational components and is chosen so     *)
(* that each norm taken on the way is rational.                            *)
(***************************************************************************)
\* The spheres and rays of the tests of surfaces/sphere.rs, and more.
SurfaceSpheres ==
    {Sphere(V(0, 0, 2), F(1)), Sphere(V(0, 0, 2), F(-1)), Sphere(V(0, 0, 2), F(0))}

SurfaceRays ==
    RayInputs \cup {RayNew(V(0, 0, 0), V(-1, 0, 0)),
                    RayNew(V(0, 0, 2), V(0, 0, 1)),
                    RayNew(V(1, 0, 0), V(0, 0, -1))}

SphereCalls ==
    {[NoArgs EXCEPT !.fn = "sphere", !.sphere = sp, !.ray = r, !.filter = f] :
        sp \in SurfaceSpheres, r \in SurfaceRays, f \in Filters}

\* The intersections handed to scatter_at: a point and a unit normal.
Hits ==
    {IntersectionNew(V(0, 0, 0), V(0, 0, 1)),
     IntersectionNew(V(0, 0, 1), V(0, 0, -1))}

\* Points of the unit sphere.
SphereDraws ==
    {V(0, 0, 1), V(0, 0, -1),
     <<Q(24, 25), F(0), Q(7, 25)>>, <<Q(24, 25), F(0), Q(-7, 25)>>,
     <<F(0), Q(-24, 25), Q(-7, 25)>>}

TangentDraws == {V(1, 0, 0), V(0, -1, 0), <<Q(3, 5), Q(4, 5), F(0)>>}

LambertianCalls ==
    {[NoArgs EXCEPT !.fn = "lambertian", !.hit = h, !.draw = d] :
        h \in Hits, d \in SphereDraws}

HemisphericalCalls ==
    {[NoArgs EXCEPT !.fn = "hemispherical", !.hit = h, !.draw = d] :
        h \in Hits, d \in SphereDraws \cup TangentDraws}

\* The attenuation of the material.
Attenuations == {<<F(1), F(1), F(1)>>, <<Half, F(0), F(1)>>}

\* Incident directions, with the unit normal of the surface they hit.
Incidences ==
    {<<V(0, 0, -1), V(0, 0, 1)>>,
     <<<<Q(4, 5), F(0), Q(-3, 5)>>, V(0, 0, 1)>>,
     <<<<Q(-3, 5), F(0), Q(-4, 5)>>, V(0, 0, 1)>>,
     <<V(0, 0, 1), V(0, 0, 1)>>,
     <<V(-1, 0, 0), V(1, 0, 0)>>,
     <<<<Q(-3, 5), F(0), Q(-4, 5)>>, <<Q(3, 5), F(0), Q(4, 5)>>>>}

\* Points of the unit disc (UnitDisc), and fuzziness values.
DiscDraws == {<<F(0), F(0)>>, <<F(1), F(0)>>, <<F(0), F(-1)>>, <<Q(3, 5), Q(4, 5)>>}

Fuzziness == {F(0), Q(3, 4)}

MetalCalls ==
    {[NoArgs EXCEPT !.fn = "metal", !.ray = RayNew(V(0, 0, 0), i[1]),
                    !.hit = IntersectionNew(V(0, 0, 0), i[2]),
                    !.fuzz = f, !.vec = v, !.color = a] :
        i \in Incidences, f \in Fuzziness, v \in DiscDraws, a \in Attenuations}
    \cup {[NoArgs EXCEPT !.fn = "metal",
                         !.ray = RayNew(V(0, 0, 0), <<Q(4, 5), F(0), Q(-3, 5)>>),
                         !.fuzz = F(1), !.vec = <<F(1), F(0)>>]}

\* Draws of Uniform(0, 1).
UniformDraws == {F(0), Q(1, 100), Q(1, 25), Q(1, 9), Q(1, 2)}

\* (incident, normal, ratio) for refract: normal and oblique incidence,
\* entering and leaving.
Refractions ==
    {<<V(0, 0, 1), n, eta>> :
        n \in {V(0, 0, -1), V(0, 0, 1)}, eta \in {F(1), F(2), Q(1, 2), Q(3, 2)}}
    \cup {<<<<Q(3, 5), F(0), Q(4, 5)>>, V(0, 0, -1), eta>> :
              eta \in {F(1), Q(4, 3), Q(5, 3), F(2)}}
    \cup {<<<<Q(3, 5), F(0), Q(4, 5)>>, V(0, 0, 1), eta>> :
              eta \in {F(1), Q(3, 4), Q(3, 5), Q(1, 2)}}

RefractCalls ==
    {[NoArgs EXCEPT !.fn = "refract", !.ray = RayNew(V(0, 0, 0), c[1]),
                    !.hit = IntersectionNew(V(0, 0, 0), c[2]),
                    !.eta = c[3], !.p = u] :
        c \in Refractions, u \in UniformDraws}

\* The same cases for Dielectric, whose ratio is the reciprocal of its index.
DielectricCalls ==
    {[NoArgs EXCEPT !.fn = "dielectric", !.ray = RayNew(V(0, 0, 0), c[1]),
                    !.hit = IntersectionNew(V(0, 0, 1), c[2]),
                    !.eta = FRecip(c[3]), !.p = u, !.color = a] :
        c \in Refractions, u \in UniformDraws, a \in Attenuations}

InitCalls ==
    /\ args \in SphereCalls \cup LambertianCalls \cup HemisphericalCalls
                 \cup MetalCalls \cup RefractCalls \cup DielectricCalls
    /\ unit = "input"
    /\ ret = <<>> /\ frames = <<>>
    /\ objs = <<>> /\ depth = 0
    /\ RenderIdle
    /\ RayIdle
    /\ ImageIdle
    /\ CameraIdle

idleVars == <<args, frames, objs, depth, rayVars, renderVars, camera, imageVars>>

CallSurfaceIntersectedBy ==
    /\ unit = "input"
    /\ args.fn = "sphere"
    /\ unit' = "sphere"
    /\ ret' = SurfaceIntersectedBy(args.sphere, args.ray, args.filter)
    /\ UNCHANGED idleVars

CallLambertian ==
    /\ unit = "input"
    /\ args.fn = "lambertian"
    /\ unit' = "lambertian"
    /\ ret' = LambertianScatterAt(args.hit, args.color, args.draw)
    /\ UNCHANGED idleVars

CallHemispherical ==
    /\ unit = "input"
    /\ args.fn = "hemispherical"
    /\ unit' = "hemispherical"
    /\ ret' = HemisphericalScatterAt(args.hit, args.color, args.draw)
    /\ UNCHANGED idleVars

CallMetal ==
    /\ unit = "input"
    /\ args.fn = "metal"
    /\ unit' = "metal"
    /\ ret' = MetalScatterAt(args.color, args.fuzz, args.ray, args.hit, args.vec)
    /\ UNCHANGED idleVars

CallRefract ==
    /\ unit = "input"
    /\ args.fn = "refract"
    /\ unit' = "refract"
    /\ ret' = <<refract(args.ray.direction, args.hit.normal, args.eta, args.p)>>
    /\ UNCHANGED idleVars

CallDielectric ==
    /\ unit = "input"
    /\ args.fn = "dielectric"
    /\ unit' = "dielectric"
    /\ ret' = DielectricScatterAt(args.color, args.eta, args.ray, args.hit, args.p)
    /\ UNCHANGED idleVars

NextCalls ==
    \/ CallSurfaceIntersectedBy
    \/ CallLambertian
    \/ CallHemispherical
    \/ CallMetal
    \/ CallRefract
    \/ CallDielectric

SpecCalls == InitCalls /\ [][NextCalls]_vars

(***************************************************************************)
(* refract step by step: every call of refract, the nested one included,   *)
(* is a frame; the frames made are kept in frames.                         *)
(***************************************************************************)
MaxFrames == 4

\* Directions and normals that are not finite or not unit vectors, grazing
\* incidence, and ratios 0 and infinity.
RefractEdgeCalls ==
    {[NoArgs EXCEPT !.fn = "refract", !.ray.direction = c[1],
                    !.hit.normal = c[2], !.eta = c[3], !.p = Q(1, 2)] :
        c \in {<<V(1, 0, 0), V(0, 0, 1), F(1)>>,
               <<<<NaN, NaN, NaN>>, V(0, 0, 1), F(1)>>,
               <<V(0, 0, 1), <<NaN, NaN, NaN>>, F(2)>>,
               <<<<F(0), F(0), Infinity>>, V(0, 0, 1), F(1)>>,
               <<V(0, 0, 0), V(0, 0, 1), Q(3, 2)>>,
               <<V(0, 0, 2), V(0, 0, 1), F(1)>>,
               <<V(0, 0, 1), V(0, 0, 1), F(0)>>,
               <<V(0, 0, 1), V(0, 0, 1), Infinity>>,
               <<V(0, 0, 1), V(0, 0, 1), NaN>>}}

InitRefract ==
    /\ args \in RefractCalls \cup RefractEdgeCalls
    /\ unit = "input"
    /\ ret = <<>> /\ frames = <<>>
    /\ objs = <<>> /\ depth = 0
    /\ RenderIdle
    /\ RayIdle
    /\ ImageIdle
    /\ CameraIdle

refractIdleVars == <<args, objs, depth, rayVars, renderVars, camera, imageVars>>

Top == frames[Len(frames)]

\* The call of refract by Dielectric::scatter_at (or a test).
RefractEnter ==
    /\ unit = "input"
    /\ unit' = "refract"
    /\ frames' = <<[incident |-> args.ray.direction, normal |-> args.hit.normal,
                    ratio |-> args.eta]>>
    /\ UNCHANGED <<ret, refractIdleVars>>

\* cos_theta < 0.0: the call of refract on the negated normal.
RefractNested ==
    /\ unit = "refract"
    /\ FrameRecurses(Top)
    /\ Len(frames) < MaxFrames
    /\ frames' = Append(frames, Nested(Top))
    /\ UNCHANGED <<unit, ret, refractIdleVars>>

\* The other branch returns the reflection or the refraction, which every
\* enclosing call returns as it is.
RefractReturn ==
    /\ unit = "refract"
    /\ ~FrameRecurses(Top)
    /\ unit' = "returned"
    /\ ret' = <<RefractEntering(Top.incident, Top.normal, Top.ratio, args.p,
                                FrameCosTheta(Top))>>
    /\ UNCHANGED <<frames, refractIdleVars>>

NextRefract == RefractEnter \/ RefractNested \/ RefractReturn

SpecRefract == InitRefract /\ [][NextRefract]_vars

(***************************************************************************)
(* Calls of rand_point_in_triangle, Camera::sample_aperture and            *)
(* Camera::ray on drawn cameras, samples and viewport positions.           *)
(***************************************************************************)
\* Camera::new arguments with rational bases: down the z axis, and towards
\* (3, 0, -4).
Cameras ==
    {TestCamera,
     CameraNew(V(0, 0, 3), V(0, 0, -1), V(0, 1, 0), F(2), F(4), <<F(4), F(2)>>),
     CameraNew(V(0, 0, 0), V(3, 0, -4), V(0, 1, 0), F(5), F(2), <<F(2), F(1)>>)}

\* (cos(angle/2), sin(angle/2), 0) for angles below a straight angle.
Legs == {<<Q(4, 5), Q(3, 5), F(0)>>, <<Q(3, 5), Q(4, 5), F(0)>>}

\* Samples of Uniform::new_inclusive(0.0, 1.0).
InclusiveDraws == {F(0), Q(1, 4), Q(1, 2), Q(3, 4), F(1)}

\* (cos, sin) of segment * angle, and sqrt(angle / sin(angle)).
Rotations == {<<F(1), F(0)>>, <<Q(-3, 5), Q(4, 5)>>}

PolygonScales == {F(1), Q(23, 20)}

LensDraws ==
    [up : Legs, u : InclusiveDraws, v : InclusiveDraws,
     rot : Rotations, scale : PolygonScales]

\* Viewport positions: corners, inside, and beyond the unit square.
ViewportPositions ==
    {<<F(0), F(0)>>, <<F(1), F(1)>>, <<Q(1, 2), Q(1, 4)>>, <<Q(3, 2), Q(-1, 2)>>}

TriangleCalls ==
    {[NoArgs EXCEPT !.fn = "triangle", !.lens = l] :
        l \in {d \in LensDraws : d.rot = <<F(1), F(0)>> /\ d.scale = F(1)}}

ApertureCalls ==
    {[NoArgs EXCEPT !.fn = "aperture", !.lens = l] :
        l \in {d \in LensDraws : d.up = <<Q(4, 5), Q(3, 5), F(0)>>}}

CameraRayCalls ==
    {[NoArgs EXCEPT !.fn = "ray", !.lens = l, !.at = uv] :
        l \in {d \in LensDraws : d.up = <<Q(4, 5), Q(3, 5), F(0)>>},
        uv \in ViewportPositions}

InitCamera ==
    /\ camera \in Cameras
    /\ args \in TriangleCalls \cup ApertureCalls \cup CameraRayCalls
    /\ unit = "input"
    /\ ret = <<>> /\ frames = <<>>
    /\ objs = <<>> /\ depth = 0
    /\ RenderIdle
    /\ RayIdle
    /\ ImageIdle

\* The offset Camera::sample_aperture draws for the samples of the call.
LensOffset ==
    SampleAperture(camera,
                   RandPointInTriangle(args.lens.up, args.lens.u, args.lens.v),
                   args.lens.rot, args.lens.scale)

CallRandPointInTriangle ==
    /\ unit = "input"
    /\ args.fn = "triangle"
    /\ unit' = "triangle"
    /\ ret' = <<RandPointInTriangle(args.lens.up, args.lens.u, args.lens.v)>>
    /\ UNCHANGED idleVars

CallSampleAperture ==
    /\ unit = "input"
    /\ args.fn = "aperture"
    /\ unit' = "aperture"
    /\ ret' = <<LensOffset>>
    /\ UNCHANGED idleVars

CallCameraRay ==
    /\ unit = "input"
    /\ args.fn = "ray"
    /\ unit' = "ray"
    /\ ret' = <<LensRay(camera, args.at[1], args.at[2], LensOffset)>>
    /\ UNCHANGED idleVars

NextCamera ==
    \/ CallRandPointInTriangle
    \/ CallSampleAperture
    \/ CallCameraRay

SpecCamera == InitCamera /\ [][NextCamera]_vars

(***************************************************************************)
(* Runs of write_pgm on images of up to MaxCells pixels, over a stream     *)
(* any write of which may fail.                                            *)
(***************************************************************************)
\* Pixels whose channels have rational square roots.
Palette ==
    << <<F(1), Q(1, 4), F(0)>>,
       <<Q(25, 16), Q(-25, 16), Q(1, 100)>>,
       <<NaN, Infinity, Q(1, 16)>>,
       <<FNeg(Infinity), Q(9, 16), Q(-1, 4)>> >>

\* The pixels of test_write_pgm.
TestPalette == << <<F(1), Q(1, 2), F(0)>>, <<Q(5, 4), Q(-5, 4), F(0)>> >>

Shapes == {wh \in (0..MaxCells) \X (0..MaxCells) : wh[1] * wh[2] <= MaxCells}

\* An image of the given shape whose cells were assigned the pixels of the
\* palette in turn, starting from the one numbered shift.
Painted(w, h, palette, shift) ==
    [width |-> w, height |-> h,
     pixels |-> [k \in 1..(w * h) |-> palette[((k - 1 + shift) % Len(palette)) + 1]]]

Gammas == {F(1), F(2), Q(1, 2)}

PgmInputs ==
    {<<Painted(wh[1], wh[2], Palette, shift), g>> :
        wh \in Shapes, shift \in 0..1, g \in Gammas}
    \cup {<<Painted(wh[1], wh[2], TestPalette, 0), F(1)>> : wh \in Shapes}

InitPgm ==
    /\ \E in \in PgmInputs :
          /\ img = in[1]
          /\ pgm = [NoPgm EXCEPT !.pc = "magic", !.gamma = in[2]]
    /\ last = NoOperation
    /\ objs = <<>> /\ depth = 0
    /\ RenderIdle
    /\ RayIdle
    /\ CallIdle
    /\ CameraIdle

pgmIdleVars == <<img, last, objs, depth, rayVars, renderVars, callVars, camera>>

\* The leading numbers of a line that may have reached the stream when the
\* write of the line fails.
Torn(line) == {SubSeq(line.numbers, 1, k) : k \in 0..Len(line.numbers)}

\* writeln!(stream, "P3")?
PgmMagic ==
    /\ pgm.pc = "magic"
    /\ \E ok \in BOOLEAN : \E torn \in Torn(Line("P3", <<>>)) :
          pgm' = Written(pgm, Line("P3", <<>>), ok, torn, "size")
    /\ UNCHANGED pgmIdleVars

\* writeln!(stream, "{} {}", image.width(), image.height())?
PgmSize ==
    /\ pgm.pc = "size"
    /\ \E ok \in BOOLEAN :
       \E torn \in Torn(Line("", <<ImageWidth(img), ImageHeight(img)>>)) :
          pgm' = Written(pgm, Line("", <<ImageWidth(img), ImageHeight(img)>>),
                         ok, torn, "maxval")
    /\ UNCHANGED pgmIdleVars

\* writeln!(stream, "255")?
PgmMaxval ==
    /\ pgm.pc = "maxval"
    /\ \E ok \in BOOLEAN : \E torn \in Torn(Line("", <<255>>)) :
          pgm' = Written(pgm, Line("", <<255>>), ok, torn, "rows")
    /\ UNCHANGED pgmIdleVars

\* image.iter().enumerate(): the first row, if any
PgmRows ==
    /\ pgm.pc = "rows"
    /\ pgm' = [pgm EXCEPT !.pc = IF ImageIter(img).panicked THEN "panicked"
                                 ELSE IF Len(ImageIter(img).rows) = 0 THEN "done"
                                 ELSE "pixel"]
    /\ UNCHANGED pgmIdleVars

\* writeln!(stream, "{} {} {}", ..)? for the next pixel of the row
PgmPixel ==
    /\ pgm.pc = "pixel"
    /\ \E ok \in BOOLEAN :
       \E torn \in Torn(PixelLine(ImageIter(img).rows[pgm.y + 1][pgm.x + 1],
                                  pgm.gamma)) :
          pgm' = [Written(pgm,
                          PixelLine(ImageIter(img).rows[pgm.y + 1][pgm.x + 1],
                                    pgm.gamma),
                          ok, torn,
                          IF pgm.x + 1 < Len(ImageIter(img).rows[pgm.y + 1])
                          THEN "pixel" ELSE "callback")
                  EXCEPT !.x = IF ok THEN pgm.x + 1 ELSE pgm.x]
    /\ UNCHANGED pgmIdleVars

\* callback(y + 1), and the next row, if any
PgmCallback ==
    /\ pgm.pc = "callback"
    /\ pgm' = [pgm EXCEPT !.callbacks = Append(@, pgm.y + 1),
                          !.y = pgm.y + 1,
                          !.x = 0,
                          !.pc = IF pgm.y + 1 < Len(ImageIter(img).rows)
                                 THEN "pixel" ELSE "done"]
    /\ UNCHANGED pgmIdleVars

NextPgm ==
    \/ PgmMagic
    \/ PgmSize
    \/ PgmMaxval
    \/ PgmRows
    \/ PgmPixel
    \/ PgmCallback

SpecPgm == InitPgm /\ [][NextPgm]_vars

(***************************************************************************)
(* Images of up to MaxCells pixels under Image::new, the accessors, iter   *)
(* and the index operators.  A panic ends the run.                         *)
(***************************************************************************)
Paints == {<<F(1), Half, F(0)>>, <<Half, Half, Half>>}

\* let image = Image::new(width, height)
InitImage ==
    /\ \E wh \in Shapes :
          /\ img = Image(wh[1], wh[2])
          /\ last = [NoOperation EXCEPT !.op = "new", !.shape = wh]
    /\ pgm = NoPgm
    /\ objs = <<>> /\ depth = 0
    /\ RenderIdle
    /\ RayIdle
    /\ CallIdle
    /\ CameraIdle

imageIdleVars == <<pgm, objs, depth, rayVars, renderVars, callVars, camera>>

\* image[i][j] = pixel
ImageStoreAt ==
    /\ ~last.panicked
    /\ \E i \in 0..img.height, j \in 0..img.width, pixel \in Paints :
          /\ img' = ImageStore(img, i, j, pixel).image
          /\ last' = [last EXCEPT !.op = "store", !.i = i, !.j = j,
                                  !.panicked = ImageStore(img, i, j, pixel).panicked,
                                  !.value = <<pixel>>,
                                  !.before = img.pixels]
    /\ UNCHANGED imageIdleVars

\* image[i][j]
ImageLoadAt ==
    /\ ~last.panicked
    /\ \E i \in 0..img.height, j \in 0..img.width :
          last' = [last EXCEPT !.op = "load", !.i = i, !.j = j,
                               !.panicked = ImageLoad(img, i, j).panicked,
                               !.value = <<ImageLoad(img, i, j).pixel>>,
                               !.before = img.pixels]
    /\ UNCHANGED <<img, imageIdleVars>>

\* image.iter(), collected
ImageIterate ==
    /\ ~last.panicked
    /\ last' = [last EXCEPT !.op = "iter", !.i = 0, !.j = 0,
                            !.panicked = ImageIter(img).panicked,
                            !.value = ImageIter(img).rows,
                            !.before = img.pixels]
    /\ UNCHANGED <<img, imageIdleVars>>

\* (image.width(), image.height())
ImageSize ==
    /\ ~last.panicked
    /\ last' = [last EXCEPT !.op = "size", !.i = 0, !.j = 0,
                            !.panicked = FALSE,
                            !.value = <<ImageWidth(img), ImageHeight(img)>>,
                            !.before = img.pixels]
    /\ UNCHANGED <<img, imageIdleVars>>

NextImage ==
    \/ ImageStoreAt
    \/ ImageLoadAt
    \/ ImageIterate
    \/ ImageSize

SpecImage == InitImage /\ [][NextImage]_vars

(***************************************************************************)
(* Properties of Scene::render_ray and Ray::intersects (SpecRay).          *)
(* The candidates of a call are every intersection of every object with    *)
(* its distance from the ray origin, in the order of scene.objects; the    *)
(* operators below take them as the parameter m.                           *)
(***************************************************************************)
AllMatches == Matches(ray, scene, 1)

InFilter(f, d) ==
    /\ ~IsNaN(d)
    /\ (d = f.start \/ FLt(f.start, d))
    /\ FLt(d, f.end)

MatchesIn(m, f) == {k \in 1..Len(m) : InFilter(f, m[k].distance)}

Nearest(m, f) ==
    {k \in MatchesIn(m, f) :
        \A j \in MatchesIn(m, f) : ~FLt(m[j].distance, m[k].distance)}

First(S) == CHOOSE k \in S : \A j \in S : k <= j

HitDistance(r) == norm(VSub(r.hit[1].intersection.point, ray.origin))

TestRay == RayNew(V(0, 0, 0), V(0, 0, 1))

\* (1/n) * sum over i of attenuation_i (x) color_i
RECURSIVE MeanOfProducts(_, _, _)
MeanOfProducts(pairs, colors, i) ==
    IF i > Len(pairs) THEN <<F(0), F(0), F(0)>>
    ELSE PixelAdd(VScale(PixelMul(pairs[i].attenuation, colors[i]),
                         Q(1, Len(pairs))),
                  MeanOfProducts(pairs, colors, i + 1))

MeanOverPairs(pairs) ==
    MeanOfProducts(pairs,
                   [i \in 1..Len(pairs) |->
                       RenderRay(scene, pairs[i].ray, depth - 1).color],
                   1)

ScatterMeanOf(pairs) ==
    /\ out.found
    /\ out.pairs = pairs
    /\ Len(pairs) = 0 => out.color = <<F(0), F(0), F(0)>>
    /\ Len(pairs) >= 1 => out.color = MeanOverPairs(pairs)

ScatterMeanAt(hit) ==
    ScatterMeanOf(ScatterAt(hit.material, ray, hit.intersection))

ScatterMeanIn(m) ==
    MatchesIn(m, RenderFilter) # {} =>
        ScatterMeanAt(m[First(Nearest(m, RenderFilter))])

\* C1: when render_ray(ray, depth) with depth > 0 finds a hit and the material
\* returns n >= 1 pairs (ray_i, attenuation_i), the result is the mean of
\* attenuation_i times render_ray(ray_i, depth - 1), component by component;
\* with zero pairs the result is black.
C1_ScatterMean ==
    (op = "render_ray" /\ depth > 0) => ScatterMeanIn(AllMatches)

C1_Witness ==
    /\ op = "render_ray" /\ depth > 0 /\ out.found
    /\ Len(out.pairs) = 2
    /\ out.sub[1] # out.sub[2]
    /\ out.color # <<F(0), F(0), F(0)>>

\* C2: render_ray(ray, 0) is black for every ray and scene, and makes neither
\* a nearest-hit query nor a scatter_at call.
C2_DepthZeroBlack ==
    (op = "render_ray" /\ depth = 0) =>
        /\ out.color = <<F(0), F(0), F(0)>>
        /\ out.queries = 0
        /\ out.scatters = 0

C2_Witness ==
    /\ op = "render_ray" /\ depth = 0
    /\ MatchesIn(AllMatches, RenderFilter) # {}
    /\ out.color = <<F(0), F(0), F(0)>>

Blend(t) ==
    VAdd(VScale(<<F(1), F(1), F(1)>>, FSub(F(1), t)),
         VScale(<<Q(1, 2), Q(7, 10), F(1)>>, t))

\* C3: with depth > 0 and no intersection in the distance range, render_ray
\* returns (1-t)*(1,1,1) + t*(0.5,0.7,1.0), t = 0.5*(ray.direction.y + 1),
\* and calls no material.
C3_BackgroundGradient ==
    (op = "render_ray" /\ depth > 0 /\ MatchesIn(AllMatches, RenderFilter) = {}) =>
        /\ out.color = Blend(FMul(Q(1, 2), FAdd(ray.direction[2], F(1))))
        /\ out.scatters = 0
        /\ ~out.found

C3_Witness ==
    /\ op = "render_ray" /\ depth > 0
    /\ Len(objs) > 0
    /\ MatchesIn(AllMatches, RenderFilter) = {}
    /\ ray.direction[2] = F(1)
    /\ out.color = <<Q(1, 2), Q(7, 10), F(1)>>

NearestOf(m) ==
    /\ (res.hit = <<>>) <=> (MatchesIn(m, filter) = {})
    /\ res.hit # <<>> =>
          \E k \in Nearest(m, filter) :
              /\ res.hit[1].intersection = m[k].intersection
              /\ HitDistance(res) = m[k].distance

TwoSpheres ==
    (ray = TestRay /\ objs \in {<<1, 2>>, <<2, 1>>}) =>
        /\ filter = Range(F(0), Infinity) =>
              /\ res.hit # <<>>
              /\ res.hit[1].intersection.point = V(0, 0, 1)
              /\ HitDistance(res) = F(1)
        /\ filter = Range(F(2), Infinity) =>
              /\ res.hit # <<>>
              /\ res.hit[1].intersection.point = V(0, 0, 3)
              /\ HitDistance(res) = F(3)

\* C4: Ray::intersects returns a candidate at the minimum distance among the
\* intersections whose distance lies in filter, and None when there is none;
\* for unit spheres centred at distance 2 and 4 along the ray it returns the
\* hit at distance 1 under [0,inf) and the hit at distance 3 under [2,inf).
C4_NearestInFilter ==
    op = "intersects" => (~res.panicked /\ NearestOf(AllMatches) /\ TwoSpheres)

C4_Witness ==
    /\ op = "intersects" /\ ray = TestRay /\ objs = <<2, 1>>
    /\ filter = Range(F(2), Infinity)
    /\ Cardinality(MatchesIn(AllMatches, Range(F(0), Infinity))) = 2
    /\ res.hit # <<>>
    /\ HitDistance(res) = F(3)

NaNComparesLast(m) ==
    \A i, j \in 1..Len(m) :
        (IsNaN(m[i].distance) /\ ~IsNaN(m[j].distance)) =>
            /\ Compare(m[i].distance, m[j].distance) = "Greater"
            /\ Compare(m[j].distance, m[i].distance) = "Less"

\* C5: Ray::intersects never returns a candidate whose distance is NaN and
\* never panics when candidate distances are NaN; the comparator orders a NaN
\* distance after every distance that is a number.
C5_NaNNeverSelected ==
    op = "intersects" =>
        /\ ~res.panicked
        /\ res.hit # <<>> => ~IsNaN(res.hit[1].distance) /\ ~IsNaN(HitDistance(res))
        /\ NaNComparesLast(AllMatches)

C5_WitnessIn(m) ==
    /\ Len(m) = 2
    /\ IsNaN(m[1].distance)
    /\ ~IsNaN(m[2].distance)
    /\ res.hit # <<>>
    /\ res.hit[1] = m[2]

C5_Witness == op = "intersects" /\ C5_WitnessIn(AllMatches)

Reorderings(ix) ==
    {[i \in 1..Len(ix) |-> ix[p[i]]] :
        p \in {q \in [1..Len(ix) -> 1..Len(ix)] :
                  \A i, j \in 1..Len(ix) : q[i] = q[j] => i = j}}

\* C6 as stated: the (intersection, material) pair is the same for every
\* permutation of scene.objects, also when candidates of two objects lie at
\* equal distance.
C6_AnyOrderSamePair ==
    op = "intersects" =>
        \A p \in Reorderings(objs) : Intersects(ray, SceneOf(p), filter) = res

SameUpToTies(other, single) ==
    /\ (other.hit = <<>>) <=> (res.hit = <<>>)
    /\ res.hit # <<>> => other.hit[1].distance = res.hit[1].distance
    /\ single => other = res

EarliestOfNearest(m) ==
    res.hit # <<>> =>
        /\ Nearest(m, filter) # {}
        /\ res.hit[1] = m[First(Nearest(m, filter))]

SingleNearest(m) == Cardinality(Nearest(m, filter)) = 1

\* C6 as amended: for every permutation of scene.objects the query finds a hit
\* or not alike and at the same distance; the pair is the same whenever a
\* single candidate attains the minimum distance, and among several at the
\* minimum distance the candidate of the earliest object is returned.
C6_OrderOnlyBreaksTies ==
    op = "intersects" =>
        /\ \E single \in {SingleNearest(AllMatches)} :
              \A p \in Reorderings(objs) :
                  SameUpToTies(Intersects(ray, SceneOf(p), filter), single)
        /\ EarliestOfNearest(AllMatches)

C6_WitnessIn(m) ==
    /\ Cardinality(Nearest(m, filter)) = 2
    /\ res.hit # <<>>
    /\ res.hit[1].material = scene[1].material
    /\ scene[1].material # scene[2].material

C6_Witness == op = "intersects" /\ C6_WitnessIn(AllMatches)

(***************************************************************************)
(* Properties of render (Spec).                                            *)
(***************************************************************************)
\* The image rows with an assigned pixel, and those with every pixel assigned.
Touched == {i \in 0..(height - 1) :
               \E j \in 0..(width - 1) : writes[i * width + j + 1] > 0}

Full == {i \in 0..(height - 1) :
            \A j \in 0..(width - 1) : writes[i * width + j + 1] > 0}

Running == pc \in {"pixel", "callback", "done"}

\* C7: the callback is invoked height times, with 1, 2, ..., height in that
\* order; the k-th invocation comes when every pixel of k rows is written and
\* no pixel of a further row is.
C7_CallbackPerRow ==
    /\ callbacks = [k \in 1..Len(callbacks) |-> k]
    /\ Len(callbacks) <= height
    /\ pc = "done" => Len(callbacks) = height
    /\ Running =>
          /\ Cardinality(Full) >= Len(callbacks)
          /\ Cardinality(Touched) <= Len(callbacks) + 1
          /\ pc = "callback" =>
                (Touched = Full /\ Cardinality(Full) = Len(callbacks) + 1)
          /\ pc = "done" => (Touched = Full /\ Cardinality(Full) = height)

C7_Witness ==
    /\ pc = "done" /\ width >= 2 /\ height >= 2
    /\ samples >= 1
    /\ callbacks = <<1, 2>>

\* C8: with height >= 2 the pixels of image row i (row 0 = top) are sampled
\* with v = ((height-1-i) + j)/(height-1), j in [0,1): the top row gets the
\* largest v (from 1 up), the bottom row the smallest (from 0 up), and the
\* rows are completed from the bottom image row to the top one.
C8_RowsBottomUp ==
    (Running /\ height >= 2) =>
        /\ call.made =>
              /\ FLe(F(0), call.jv) /\ FLt(call.jv, F(1))
              /\ call.v = FDiv(FAdd(F(height - 1 - call.row), call.jv),
                               F(height - 1))
              /\ call.row = 0 => FLe(F(1), call.v)
              /\ call.row = height - 1 => FLt(call.v, Q(1, height - 1))
              /\ (pc = "pixel" /\ s > 0) =>
                    /\ call.row \notin Full
                    /\ \A i \in Touched : i >= call.row
              /\ (pc = "callback" \/ s = 0) =>
                    writes[call.row * width + call.col + 1] = 1
        /\ \A i \in Touched : i >= height - 1 - Len(callbacks)
        /\ \A i \in 0..(height - 1) :
              i >= height - Len(callbacks) => i \in Full

C8_Witness ==
    /\ pc = "done" /\ height >= 3
    /\ call.made /\ call.row = 0
    /\ FLt(F(1), call.v)
    /\ writes[1] = 1

RECURSIVE SumOfColors(_, _)
SumOfColors(colors, i) ==
    IF i > Len(colors) THEN <<F(0), F(0), F(0)>>
    ELSE VAdd(colors[i], SumOfColors(colors, i + 1))

Assigned == SumOfColors([k \in 1..Len(writes) |-> <<F(writes[k]), F(0), F(0)>>], 1)[1][1]

\* C9: for samples >= 1 render calls camera.ray samples times for each pixel
\* (width*height*samples calls in all), calls render_ray on each of the rays
\* with the configured depth, and stores in the pixel's cell the sum of the
\* returned colors divided by samples.
C9_MeanOfSamples ==
    (Running /\ samples >= 1) =>
        /\ rayCalls = Assigned * samples + s
        /\ pc = "done" => rayCalls = width * height * samples
        /\ Len(got) = s
        /\ call.made => call.color = RenderRay(scene, call.ray, depth).color
        /\ (call.made /\ s > 0) => got[s] = call.color
        /\ stored.made =>
              /\ Len(stored.colors) = samples
              /\ image[stored.cell] =
                     VScale(SumOfColors(stored.colors, 1), Q(1, samples))

C9_Witness ==
    /\ pc = "done" /\ samples = 2 /\ width * height >= 2
    /\ stored.made
    /\ stored.colors[1] # stored.colors[2]
    /\ rayCalls = width * height * 2

\* C10: for width >= 2 and height >= 2 every (u, v) handed to camera.ray lies
\* in the unit square, 0 <= u <= 1 and 0 <= v <= 1.
C10_UnitSquare ==
    (call.made /\ width >= 2 /\ height >= 2) =>
        /\ FLe(F(0), call.u) /\ FLe(call.u, F(1))
        /\ FLe(F(0), call.v) /\ FLe(call.v, F(1))

\* C11: render called with zero width, zero height or zero samples fails
\* instead of returning an image: no such call returns.
C11_ZeroSizeFails ==
    (width = 0 \/ height = 0 \/ samples = 0) => pc # "done"

\* The cells whose pixel a step changes, and those whose count of writes it
\* raises.
Repainted == {k \in 1..Len(image) : image'[k] # image[k]}

Rewritten == {k \in 1..Len(writes) : writes'[k] # writes[k]}

\* C24: on an image of width * height cells render assigns every cell exactly
\* once before it returns; an assignment changes the pixel of that cell alone
\* and leaves every other cell as it was, the steps between assignments change
\* no cell; and no step changes the scene, the depth or the camera.
C24_EachCellOnce ==
    /\ [](Running =>
            /\ Len(image) = width * height /\ Len(writes) = width * height
            /\ \A k \in 1..Len(writes) : writes[k] <= 1
            /\ pc = "done" => \A k \in 1..Len(writes) : writes[k] = 1)
    /\ [][/\ objs' = objs /\ depth' = depth /\ camera' = camera
          /\ Running =>
                /\ Len(image') = Len(image)
                /\ Cardinality(Rewritten) <= 1
                /\ Repainted \subseteq Rewritten
                /\ \A k \in Rewritten :
                      /\ writes'[k] = writes[k] + 1
                      /\ stored'.cell = k
                      /\ image'[k] = PixelMean(acc, samples)]_vars

C24_Witness ==
    /\ pc = "done" /\ width >= 2 /\ height >= 2 /\ samples >= 1
    /\ \A k \in 1..(width * height) : writes[k] = 1
    /\ \E k \in 1..Len(image) : image[k] # PixelDefault
    /\ objs \in RenderScenes /\ camera = TestCamera

(***************************************************************************)
(* Properties of <Sphere as Surface>::intersected_by (SpecCalls).          *)
(***************************************************************************)
\* The distances t at which the ray meets the sphere, |ray.at(t) - center|^2
\* = radius^2, among the multiples of 1/2 up to 5: expanded, the roots of
\* a*t^2 + 2b*t + c = 0.
Distances == {Q(k, 2) : k \in -10..10}

SquaredDistance(point, center) == dot(VSub(point, center), VSub(point, center))

MeetsAt(sphere, r, t) ==
    SquaredDistance(VAdd(r.origin, VScale(r.direction, t)), sphere.center)
        = FMul(sphere.radius, sphere.radius)

RootsOf(sphere, r) == {t \in Distances : MeetsAt(sphere, r, t)}

\* b^2 - a*c
Discriminant(sphere, r) ==
    LET offset == VSub(r.origin, sphere.center)
    IN  FSub(FMul(dot(offset, r.direction), dot(offset, r.direction)),
             FMul(dot(r.direction, r.direction),
                  FSub(dot(offset, offset), FMul(sphere.radius, sphere.radius))))

Least(S) == CHOOSE t \in S : \A u \in S : ~FLt(u, t)

Greatest(S) == CHOOSE t \in S : \A u \in S : ~FLt(t, u)

\* The two roots, the nearer first; a double root is listed twice.
RootPair(roots) ==
    IF roots = {} THEN <<>> ELSE <<Least(roots), Greatest(roots)>>

RootsInRange(roots, f) ==
    LET inRange(t) == InFilter(f, t)
    IN  SelectSeq(RootPair(roots), inRange)

RootsMatchDiscriminant(roots, disc) ==
    /\ FLt(disc, F(0)) => roots = {}
    /\ disc = F(0) => Cardinality(roots) = 1
    /\ FLt(F(0), disc) => Cardinality(roots) = 2

IntersectionsAtRoots(expected) ==
    /\ Len(ret) = Len(expected)
    /\ \A i \in 1..Len(ret) :
          ret[i].point = VAdd(args.ray.origin, VScale(args.ray.direction, expected[i]))

\* C12: Sphere::intersected_by(ray, filter) returns one intersection for each
\* of the two roots of a*t^2 + 2b*t + c = 0 that lies in [start, end), the
\* nearer root first (a double root counts as two roots), and an empty list
\* when b^2 - a*c is negative or no root lies in the range.
C12_RootsInFilter ==
    unit = "sphere" =>
        /\ RootsMatchDiscriminant(RootsOf(args.sphere, args.ray),
                                  Discriminant(args.sphere, args.ray))
        /\ IntersectionsAtRoots(RootsInRange(RootsOf(args.sphere, args.ray),
                                             args.filter))
        /\ FLt(Discriminant(args.sphere, args.ray), F(0)) => ret = <<>>
        /\ (\A t \in RootsOf(args.sphere, args.ray) : ~InFilter(args.filter, t))
              => ret = <<>>

C12_Witness ==
    /\ unit = "sphere"
    /\ RootsOf(args.sphere, args.ray) = {F(1), F(3)}
    /\ args.filter = Range(F(2), Infinity)
    /\ Len(ret) = 1
    /\ ret[1].point = V(0, 0, 3)

\* The ray touches the sphere: b^2 - a*c = 0 and the double root is in range.
TangentInRange ==
    /\ unit = "sphere"
    /\ Discriminant(args.sphere, args.ray) = F(0)
    /\ \E t \in RootsOf(args.sphere, args.ray) : InFilter(args.filter, t)

\* C13 as stated: a ray tangent to a sphere, with the double root inside the
\* filter, makes Sphere::intersected_by return exactly one intersection.
C13_TangentOnce == TangentInRange => Len(ret) = 1

\* C13: a ray tangent to a sphere, with the double root t inside the filter,
\* makes Sphere::intersected_by return exactly two intersections, equal to each
\* other, both at ray.at(t).
C13_TangentTwice ==
    TangentInRange =>
        /\ Len(ret) = 2
        /\ ret[1] = ret[2]
        /\ \A t \in RootsOf(args.sphere, args.ray) :
              ret[1].point = VAdd(args.ray.origin, VScale(args.ray.direction, t))

C13_Witness ==
    /\ TangentInRange
    /\ args.sphere = Sphere(V(0, 0, 2), F(1))
    /\ args.ray = RayNew(V(1, 0, 0), V(0, 0, 1))
    /\ args.filter = Range(F(0), Infinity)
    /\ ret = <<IntersectionNew(V(1, 0, 2), V(1, 0, 0)),
               IntersectionNew(V(1, 0, 2), V(1, 0, 0))>>

\* The same call on the sphere of the negated radius.
Hollow(sphere) == Sphere(sphere.center, FNeg(sphere.radius))

Opposite ==
    SurfaceIntersectedBy(Hollow(args.sphere), args.ray, args.filter)

UnitLength(v) == dot(v, v) = F(1)

\* v = k * w for some k > 0
SameDirection(v, w) ==
    /\ cross(v, w) = V(0, 0, 0)
    /\ FLt(F(0), dot(v, w))

\* C14: every intersection returned by Sphere::intersected_by for a sphere of
\* radius r # 0 has its point equal to ray.at(t) for a root t inside the
\* filter, at squared distance r^2 from the centre, and its normal is the unit
\* vector along (point - centre) / r; the sphere of radius -r returns the same
\* points with the negated normals.
C14_PointAndNormal ==
    (unit = "sphere" /\ args.sphere.radius # F(0)) =>
        /\ \A i \in 1..Len(ret) :
              /\ \E t \in RootsOf(args.sphere, args.ray) :
                    /\ InFilter(args.filter, t)
                    /\ ret[i].point
                         = VAdd(args.ray.origin, VScale(args.ray.direction, t))
              /\ SquaredDistance(ret[i].point, args.sphere.center)
                    = FMul(args.sphere.radius, args.sphere.radius)
              /\ UnitLength(ret[i].normal)
              /\ SameDirection(ret[i].normal,
                               VScale(VSub(ret[i].point, args.sphere.center),
                                      FRecip(args.sphere.radius)))
        /\ Len(Opposite) = Len(ret)
        /\ \A i \in 1..Len(ret) :
              /\ Opposite[i].point = ret[i].point
              /\ Opposite[i].normal = VSub(V(0, 0, 0), ret[i].normal)

C14_Witness ==
    /\ unit = "sphere"
    /\ args.sphere = Sphere(V(0, 0, 2), F(-1))
    /\ Len(ret) = 2
    /\ ret[1] = IntersectionNew(V(0, 0, 1), V(0, 0, 1))
    /\ ret[2] = IntersectionNew(V(0, 0, 3), V(0, 0, -1))

(***************************************************************************)
(* Properties of the materials (SpecCalls).                                *)
(***************************************************************************)
\* The scattered ray leaves the hit point on the side of the normal.
Outward(scatter) ==
    /\ scatter.ray.origin = args.hit.point
    /\ FLt(F(0), dot(scatter.ray.direction, args.hit.normal))

\* C15: Lambertian::scatter_at returns exactly one ray, with origin at the hit
\* point and a direction d with d . normal > 0, for every draw of
\* rand_point_on_sphere, the draw equal to the negated normal included.
C15_LambertianOutward ==
    unit = "lambertian" => (Len(ret) = 1 /\ Outward(ret[1]))

\* The draws other than the negated normal do scatter outward.
C15_OutwardElsewhere ==
    (unit = "lambertian" /\ args.draw # VNeg(args.hit.normal))
        => (Len(ret) = 1 /\ Outward(ret[1]))

C15_DegenerateDraw ==
    /\ unit = "lambertian"
    /\ args.draw = VNeg(args.hit.normal)
    /\ ret[1].ray.direction = <<NaN, NaN, NaN>>

\* C16: Hemispherical::scatter_at returns exactly one ray, with origin at the
\* hit point and a direction d with d . normal > 0, for every draw, the draws
\* orthogonal to the normal included.
C16_HemisphericalOutward ==
    unit = "hemispherical" => (Len(ret) = 1 /\ Outward(ret[1]))

C16_OutwardElsewhere ==
    (unit = "hemispherical" /\ dot(args.draw, args.hit.normal) # F(0))
        => (Len(ret) = 1 /\ Outward(ret[1]))

C16_TangentDraw ==
    /\ unit = "hemispherical"
    /\ dot(args.draw, args.hit.normal) = F(0)
    /\ dot(ret[1].ray.direction, args.hit.normal) = F(0)

\* D - 2(D . N)N, component by component
Mirrored(d, n) ==
    [i \in 1..3 |-> FSub(d[i], FMul(FMul(F(2), dot(d, n)), n[i]))]

\* Metal of fuzziness 0 hit from the front: D . N < 0.
ExactMirror ==
    /\ unit = "metal"
    /\ args.fuzz = F(0)
    /\ FLt(dot(args.ray.direction, args.hit.normal), F(0))

\* C17: Metal with fuzziness 0, hit by a ray of direction D on a surface of
\* normal N with D . N < 0, returns exactly one scattered ray, whose direction
\* is D - 2(D . N)N, also when that direction is parallel to the x axis.
C17_ZeroFuzzMirror ==
    ExactMirror =>
        /\ Len(ret) = 1
        /\ ret[1].ray.direction = Mirrored(args.ray.direction, args.hit.normal)

\* Reflected directions not parallel to the x axis are returned exactly.
C17_MirrorOffAxis ==
    (ExactMirror
       /\ cross(Mirrored(args.ray.direction, args.hit.normal), V(1, 0, 0))
             # V(0, 0, 0))
        => /\ Len(ret) = 1
           /\ ret[1].ray.direction = Mirrored(args.ray.direction, args.hit.normal)

C17_AxisAbsorbed ==
    /\ ExactMirror
    /\ Mirrored(args.ray.direction, args.hit.normal) = V(1, 0, 0)
    /\ ret = <<>>

\* The perturbed reflected direction of the call, and its dot product with the
\* normal.
Perturbed ==
    VAdd(Mirrored(args.ray.direction, args.hit.normal),
         RandPointOnDisk(Mirrored(args.ray.direction, args.hit.normal),
                         args.fuzz, args.vec))

PerturbedDot == dot(Perturbed, args.hit.normal)

OnePair(direction) ==
    /\ Len(ret) = 1
    /\ ret[1].ray.origin = args.hit.point
    /\ ret[1].ray.direction = normalize(direction)
    /\ ret[1].attenuation = args.color

Entering(d, n) == FLe(F(0), FNeg(dot(d, n)))

FacingNormal(d, n) == IF Entering(d, n) THEN n ELSE VSub(V(0, 0, 0), n)

FacingRatio(d, n, ratio) == IF Entering(d, n) THEN ratio ELSE FRecip(ratio)

CosTheta(d, n) == FNeg(dot(d, FacingNormal(d, n)))

\* ratio * sin(theta) > 1, squared: ratio^2 * (1 - cos^2) > 1
TotalInternal(d, n, ratio) ==
    FLt(F(1),
        FMul(FMul(FacingRatio(d, n, ratio), FacingRatio(d, n, ratio)),
             FSub(F(1), FMul(CosTheta(d, n), CosTheta(d, n)))))

RECURSIVE Power(_, _)
Power(base, k) == IF k = 0 THEN F(1) ELSE FMul(base, Power(base, k - 1))

\* Schlick: r0 = ((1 - ratio) / (1 + ratio))^2, r0 + (1 - r0)(1 - cos)^5
SchlickR0(ratio) == Power(FDiv(FSub(F(1), ratio), FAdd(F(1), ratio)), 2)

Schlick(d, n, ratio) ==
    FAdd(SchlickR0(FacingRatio(d, n, ratio)),
         FMul(FSub(F(1), SchlickR0(FacingRatio(d, n, ratio))),
              Power(FSub(F(1), CosTheta(d, n)), 5)))

MustReflect(d, n, ratio, p) ==
    TotalInternal(d, n, ratio) \/ FLt(p, Schlick(d, n, ratio))

Tangential(v, n) == VSub(v, VScale(n, dot(v, n)))

\* Snell's law: t is a unit vector on the far side of the surface whose part
\* along the surface is ratio times that of d.
Refracted(t, d, n, ratio) ==
    /\ UnitLength(t)
    /\ Tangential(t, FacingNormal(d, n))
          = VScale(Tangential(d, FacingNormal(d, n)), FacingRatio(d, n, ratio))
    /\ FLe(dot(t, FacingNormal(d, n)), F(0))

ReflectedOrRefracted(t, d, n, ratio, p) ==
    IF MustReflect(d, n, ratio, p)
    THEN t = Mirrored(d, n)
    ELSE Refracted(t, d, n, ratio)

NormalIncidence ==
    /\ unit = "refract"
    /\ args.ray.direction = VSub(V(0, 0, 0), args.hit.normal)
    /\ ~TotalInternal(args.ray.direction, args.hit.normal, args.eta)

Fractions == {Q(a, b) : a \in 0..25, b \in 1..20}

GammaCurve(channel, gamma) ==
    IF gamma = F(1) THEN channel
    ELSE IF gamma = Q(1, 2) THEN FMul(channel, channel)
    ELSE IF IsNaN(channel) \/ FLt(channel, F(0)) THEN NaN
    ELSE IF channel = Infinity THEN Infinity
    ELSE CHOOSE w \in Fractions : FMul(w, w) = channel

\* level is value rounded to the nearest integer (halves upwards) and
\* saturated into 0..255; a NaN or negative value gives 0.
RoundedSaturated(level, value) ==
    /\ level \in 0..255
    /\ (IsNaN(value) \/ FLt(value, F(0))) => level = 0
    /\ FLt(F(255), value) => level = 255
    /\ (FLe(F(0), value) /\ FLe(value, F(255))) =>
          /\ FLe(FSub(F(level), Q(1, 2)), value)
          /\ FLt(value, FAdd(F(level), Q(1, 2)))

PixelLevels(numbers, pixel, gamma) ==
    /\ Len(numbers) = 3
    /\ \A c \in 1..3 :
          RoundedSaturated(numbers[c], FMul(GammaCurve(pixel[c], gamma), F(255)))

\* Line number n (from 1) of the serialisation of the image.
IsLineOf(line, n, im, gamma) ==
    IF n = 1 THEN line = [text |-> "P3", numbers |-> <<>>]
    ELSE IF n = 2 THEN line = [text |-> "", numbers |-> <<im.width, im.height>>]
    ELSE IF n = 3 THEN line = [text |-> "", numbers |-> <<255>>]
    ELSE /\ line.text = ""
         /\ n - 3 <= im.width * im.height
         /\ PixelLevels(line.numbers, im.pixels[n - 3], gamma)

PgmEnded == pgm.pc \in {"done", "panicked"}

RowsWritten(n, im) ==
    IF n <= 3 \/ im.width = 0 THEN 0 ELSE (n - 3) \div im.width

\* C30: if a write to the stream fails, write_pgm returns the error at once:
\* the stream holds the lines written before the failing write and at most a
\* leading part of the failing line, nothing is written afterwards, and the
\* callback has been invoked for the rows written in full before the failure
\* only, not for the row being written nor for a later row.
C30_ErrorStopsAtOnce ==
    pgm.err =>
        /\ pgm.pc = "failed"
        /\ Len(pgm.out) = pgm.before
        /\ \A n \in 1..Len(pgm.out) : IsLineOf(pgm.out[n], n, img, pgm.gamma)
        /\ pgm.callbacks = [k \in 1..RowsWritten(pgm.before, img) |-> k]
        /\ (pgm.before >= 3 /\ img.width > 0) => Len(pgm.callbacks) <= pgm.y

C30_Witness ==
    /\ pgm.err
    /\ pgm.pc = "failed"
    /\ img.width = 2 /\ img.height = 2
    /\ pgm.y = 1 /\ pgm.x = 1
    /\ Len(pgm.out) = 6
    /\ Len(pgm.torn) = 2
    /\ pgm.callbacks = <<1>>

(***************************************************************************)
(* Properties of Image (SpecImage).                                        *)
(***************************************************************************)
\* C22: for every image built by Image::new(width, height), iter() yields
\* exactly height rows of exactly width pixels each, and width() and height()
\* return the constructor arguments after any sequence of pixel writes.
C22_ShapeKept ==
    /\ last.op = "iter" =>
          /\ ~last.panicked
          /\ Len(last.value) = last.shape[2]
          /\ \A r \in 1..Len(last.value) : Len(last.value[r]) = last.shape[1]
    /\ last.op = "size" => last.value = last.shape

\* The same for the images of width at least 1.
C22_ShapeKeptWide == last.shape[1] >= 1 => C22_ShapeKept

C22_EmptyRowsPanic ==
    /\ last.op = "iter"
    /\ last.shape = <<0, 3>>
    /\ last.panicked

\* The cell number i * width + j of the row-major grid, counted from 1.
RowMajor(i, j) == i * last.shape[1] + j + 1

\* C23: image[i][j] reads and writes the cell number i*width + j of the
\* row-major grid (row 0 on top); a write to image[i][j] leaves every other
\* cell unchanged, and indexing a row i >= height panics instead of returning
\* a row.
C23_IndexRowMajor ==
    /\ (last.op = "store" /\ ~last.panicked) =>
          /\ RowMajor(last.i, last.j) \in 1..Len(img.pixels)
          /\ img.pixels[RowMajor(last.i, last.j)] = last.value[1]
          /\ Len(img.pixels) = Len(last.before)
          /\ \A k \in 1..Len(img.pixels) :
                k # RowMajor(last.i, last.j) => img.pixels[k] = last.before[k]
    /\ (last.op = "load" /\ ~last.panicked) =>
          /\ RowMajor(last.i, last.j) \in 1..Len(img.pixels)
          /\ last.value[1] = img.pixels[RowMajor(last.i, last.j)]
          /\ img.pixels = last.before
    /\ (last.op \in {"store", "load"} /\ last.i >= last.shape[2]) =>
          /\ last.panicked
          /\ img.pixels = last.before
    /\ (last.op \in {"store", "load"} /\ last.i < last.shape[2]
          /\ last.j < last.shape[1]) => ~last.panicked

C23_Witness ==
    /\ last.op = "store" /\ ~last.panicked
    /\ last.shape = <<2, 2>>
    /\ last.i = 1 /\ last.j = 0
    /\ last.value[1] = <<F(1), Half, F(0)>>
    /\ img.pixels = <<<<Half, Half, Half>>, PixelDefault,
                      <<F(1), Half, F(0)>>, <<Half, Half, Half>>>>
(***************************************************************************)
(* Properties of the camera (SpecCamera).                                  *)
(***************************************************************************)
\* A point of the plane lies in the triangle with corners the origin, up and
\* down: 0 <= x <= up.x and |y| <= x * up.y / up.x.
InTriangle(up, point) ==
    /\ FLe(F(0), point[1]) /\ FLe(point[1], up[1])
    /\ FLe(FMul(FAbs(point[2]), up[1]), FMul(point[1], up[2]))
    /\ point[3] = F(0)

FoldedBack == FLt(F(1), FAdd(args.lens.u, args.lens.v))

\* C25: for every pair of samples u, v in [0,1] rand_point_in_triangle returns
\* a point of the triangle with apex at the origin and legs up and down; its
\* x coordinate lies in [0, cos(angle/2)], folded back or not.
C25_InsideTriangle ==
    unit = "triangle" => InTriangle(args.lens.up, ret[1])

\* Without the fold-back (u + v <= 1) the point lies in the triangle.
C25_InsideUnfolded ==
    (unit = "triangle" /\ ~FoldedBack) => InTriangle(args.lens.up, ret[1])

\* With it the point is ((1 - u - v) cos, (v - u) sin, 0), left of the apex.
C25_FoldedLeftOfApex ==
    (unit = "triangle" /\ FoldedBack) =>
        /\ FLt(ret[1][1], F(0))
        /\ ret[1] = <<FMul(FSub(F(1), FAdd(args.lens.u, args.lens.v)),
                           args.lens.up[1]),
                      FMul(FSub(args.lens.v, args.lens.u), args.lens.up[2]),
                      F(0)>>

C25_Folded ==
    /\ unit = "triangle" /\ FoldedBack
    /\ args.lens.u = F(1) /\ args.lens.v = F(1)
    /\ ret[1] = <<FNeg(args.lens.up[1]), F(0), F(0)>>

\* The point of the focal plane behind viewport position (u, v).
FocalPoint(cam, u, v) ==
    VAdd(VAdd(cam.corner, VScale(cam.image_plane[1], u)),
         VScale(cam.image_plane[2], v))

\* C26: for every lens offset, the origin Camera::ray(u, v) hands to Ray::new
\* plus the direction it hands to it (before normalisation) is
\* corner + u*horizontal + v*vertical, for every finite u and v.
C26_FocalPointFixed ==
    unit = "ray" =>
        /\ VAdd(ret[1].origin, ret[1].direction)
              = FocalPoint(camera, args.at[1], args.at[2])
        /\ ret[1].origin = VAdd(camera.origin, LensOffset)

C26_Witness ==
    /\ unit = "ray"
    /\ LensOffset # V(0, 0, 0)
    /\ ret[1].origin # camera.origin
    /\ camera # TestCamera
    /\ args.at = <<Q(1, 2), Q(1, 4)>>
    /\ VAdd(ret[1].origin, ret[1].direction) = FocalPoint(camera, Q(1, 2), Q(1, 4))

(***************************************************************************)
(* Cost and range of render_ray (SpecRay).                                 *)
(***************************************************************************)
\* Every material of the scene returns at most one pair.
SinglePairs(sc) == \A i \in 1..Len(sc) : Len(sc[i].material.pairs) <= 1

\* 2^k - 1: the calls of a tree of k levels each of which branches in two.
RECURSIVE FullTree(_)
FullTree(k) == IF k = 0 THEN 0 ELSE 2 * FullTree(k - 1) + 1

\* C27: render_ray(ray, depth) returns for every depth and scene; its recursive
\* calls nest at most depth levels, and in a scene whose materials return at
\* most one pair each it makes at most depth nearest-hit queries and at most
\* depth scatter_at calls.
C27_CostWithinDepth ==
    op = "render_ray" =>
        /\ out.levels <= depth
        /\ out.scatters <= out.queries
        /\ out.queries <= FullTree(depth)
        /\ SinglePairs(scene) =>
              (out.queries <= depth /\ out.scatters <= depth)

C27_Witness ==
    /\ op = "render_ray" /\ depth = MaxDepth /\ depth >= 2
    /\ SinglePairs(scene)
    /\ out.levels = depth
    /\ out.queries = depth
    /\ out.scatters = depth

\* A color with every channel in [0,1].
UnitColor(color) ==
    \A k \in 1..3 : FLe(F(0), color[k]) /\ FLe(color[k], F(1))

UnitAttenuations(sc) ==
    \A i \in 1..Len(sc) :
        \A k \in 1..Len(sc[i].material.pairs) :
            UnitColor(sc[i].material.pairs[k].attenuation)

\* C29: when every attenuation of the scene has its channels in [0,1] and the
\* direction of every ray of the call tree is a unit vector, every channel of
\* the color render_ray returns lies in [0,1], for every depth and scene.
C29_ColorInUnitRange ==
    (op = "render_ray" /\ UnitAttenuations(scene) /\ out.units) =>
        UnitColor(out.color)

C29_Witness ==
    /\ op = "render_ray" /\ depth = MaxDepth
    /\ UnitAttenuations(scene) /\ out.units
    /\ out.found /\ out.levels >= 2
    /\ UnitColor(out.color)
    /\ \E k \in 1..3 : FLt(F(0), out.color[k]) /\ FLt(out.color[k], F(1))

\* With an attenuation above 1 a channel of the color exceeds 1.
C29_Overexposed ==
    /\ op = "render_ray" /\ ~UnitAttenuations(scene) /\ out.units
    /\ FLt(F(1), out.color[1])

\* The pixels render stores for samples >= 1 from rays of unit direction.
C29_StoredInUnitRange ==
    (stored.made /\ samples >= 1 /\ width >= 2 /\ height >= 2) =>
        /\ \A k \in 1..Len(stored.colors) : UnitColor(stored.colors[k])
        /\ UnitColor(image[stored.cell])

(***************************************************************************)
(* Properties of refract (SpecRefract).                                    *)
(***************************************************************************)
\* C28: refract calls itself at most once.  The nested call is made when
\* incident . (-normal) < 0, with the negated normal and the reciprocal ratio,
\* and takes the branch that does not recurse; so a call that runs always has
\* its next step within two frames, and it returns what the function yields.
C28_NestsOnce ==
    /\ Len(frames) <= 2
    /\ Len(frames) = 2 =>
          /\ FLt(dot(frames[1].incident, VNeg(frames[1].normal)), F(0))
          /\ frames[2] = [incident |-> frames[1].incident,
                          normal |-> VNeg(frames[1].normal),
                          ratio |-> FRecip(frames[1].ratio)]
          /\ ~FrameRecurses(frames[2])
    /\ unit = "refract" =>
          (Len(frames) >= 1 /\ (FrameRecurses(Top) => Len(frames) = 1))
    /\ unit = "returned" =>
          ret = <<refract(args.ray.direction, args.hit.normal, args.eta, args.p)>>

C28_Witness ==
    /\ unit = "returned"
    /\ Len(frames) = 2
    /\ frames[1].normal = V(0, 0, 1) /\ frames[2].normal = V(0, 0, -1)
    /\ frames[1].ratio = Q(3, 4) /\ frames[2].ratio = Q(4, 3)
    /\ ret[1] # args.ray.direction

====
